---- MODULE Spec2Model ----
(***************************************************************************)
(* Model of the smart-spend categorization feedback loop:                  *)
(*   app/services/worker.py      process_csv_job                           *)
(*   app/services/ai_service.py  sanitize_description, predict_category    *)
(*   app/routers/transactions.py correct_category                          *)
(*   app/models/models.py        CategoryRule, Transaction                 *)
(*                                                                         *)
(* Python strings are sequences of one-character strings, so that lower(), *)
(* strip(), the `in` substring test and the PII regex are computed and not *)
(* assumed.  Floats are modelled by integers.                              *)
(***************************************************************************)
EXTENDS Integers, Sequences, FiniteSets, TLC

(***************************************************************************)
(* Bounds of the model.                                                    *)
(***************************************************************************)
MaxJobs == 2

MaxRows == 2

MaxCorrections == 2

\* jobs in progress at a time under Spec: the uploads arrive one after the other
Slots == 1

(***************************************************************************)
(* Characters and the str methods the code uses.                           *)
(***************************************************************************)
Digits == {"0", "1", "2", "3", "4", "5", "6", "7", "8", "9"}

Separators == {" ", "-"}

Whitespace == {" "}

UpperCase == {"A", "B", "C", "D", "E", "N", "R", "T", "X"}

LowerCase == {"a", "b", "c", "d", "e", "n", "r", "t", "x"}

\* str.lower() on one character
LowerChar(c) ==
    CASE c = "A" -> "a" [] c = "B" -> "b" [] c = "C" -> "c" [] c = "D" -> "d" [] c = "E" -> "e"
      [] c = "N" -> "n" [] c = "R" -> "r" [] c = "T" -> "t" [] c = "X" -> "x"
      [] OTHER -> c

\* str.lower()
Lower(s) == [i \in 1..Len(s) |-> LowerChar(s[i])]

RECURSIVE LStrip(_)
LStrip(s) ==
    IF s # <<>> /\ Head(s) \in Whitespace THEN LStrip(Tail(s)) ELSE s

RECURSIVE RStrip(_)
RStrip(s) ==
    IF s # <<>> /\ s[Len(s)] \in Whitespace
    THEN RStrip(SubSeq(s, 1, Len(s) - 1))
    ELSE s

\* str.strip()
Strip(s) == RStrip(LStrip(s))

\* Python's `k in s` on two strings
Contains(s, k) ==
    \E i \in 0..(Len(s) - Len(k)) : SubSeq(s, i + 1, i + Len(k)) = k

(***************************************************************************)
(* sanitize_description: re.sub(PII_REGEX, "[REDACTED]", description) with *)
(* PII_REGEX = \b(?:\d[ -]*?){7,16}\b, by the regex engine's backtracking  *)
(* order (greedy group count, lazy separators).                            *)
(***************************************************************************)
PiiMinDigits == 7

PiiMaxDigits == 16

REDACTED == <<"[", "R", "E", "D", "A", "C", "T", "E", "D", "]">>

\* \w of the regex engine
IsWordChar(c) == c \in Digits \cup UpperCase \cup LowerCase \cup {"_"}

\* \b between s[p] and s[p+1] (p = number of characters already consumed)
WordBoundary(s, p) ==
    LET before == p >= 1 /\ IsWordChar(s[p])
        after  == p < Len(s) /\ IsWordChar(s[p + 1])
    IN  before # after

\* The regex engine after the k-th digit of the group has been consumed and
\* p characters of s are consumed in all: end of the match, or -1.
RECURSIVE AfterDigit(_, _, _)
AfterDigit(s, p, k) ==
    LET more == IF k < PiiMaxDigits /\ p < Len(s) /\ s[p + 1] \in Digits
                THEN AfterDigit(s, p + 1, k + 1)
                ELSE -1
    IN  IF more # -1 THEN more
        ELSE IF k >= PiiMinDigits /\ WordBoundary(s, p) THEN p
        ELSE IF p < Len(s) /\ s[p + 1] \in Separators
             THEN AfterDigit(s, p + 1, k)
        ELSE -1

\* End of the match of PII_REGEX starting after p characters, or -1
PiiMatchAt(s, p) ==
    IF WordBoundary(s, p) /\ p < Len(s) /\ s[p + 1] \in Digits
    THEN AfterDigit(s, p + 1, 1)
    ELSE -1

RECURSIVE SubFrom(_, _)
SubFrom(s, p) ==
    IF p >= Len(s) THEN <<>>
    ELSE LET e == PiiMatchAt(s, p)
         IN  IF e # -1
             THEN REDACTED \o SubFrom(s, e)
             ELSE <<s[p + 1]>> \o SubFrom(s, p + 1)

(***************************************************************************)
(* Python values carried by a raw CSV row (a dict): None, a str, a number. *)
(***************************************************************************)
NoneV == [t |-> "none"]

StrV(s) == [t |-> "str", s |-> s]

NumV(n) == [t |-> "num", v |-> n]

\* bool(v)
Truthy(v) ==
    CASE v.t = "none" -> FALSE
      [] v.t = "str" -> v.s # <<>>
      [] v.t = "num" -> v.v # 0

\* a or b
PyOr(a, b) == IF Truthy(a) THEN a ELSE b

\* tx.get(key): the row is a record of its six possible keys, None if absent
RowKeys == {"description", "Description", "date", "Date", "amount", "Amount"}

sanitize_description(description) ==
    IF description.t # "str" THEN description
    ELSE StrV(SubFrom(description.s, 0))

(***************************************************************************)
(* float(x) and datetime.datetime.fromisoformat(x).                        *)
(***************************************************************************)
DigitVal(c) ==
    CASE c = "0" -> 0 [] c = "1" -> 1 [] c = "2" -> 2 [] c = "3" -> 3
      [] c = "4" -> 4 [] c = "5" -> 5 [] c = "6" -> 6 [] c = "7" -> 7
      [] c = "8" -> 8 [] c = "9" -> 9

AllDigits(s) == s # <<>> /\ \A i \in 1..Len(s) : s[i] \in Digits

RECURSIVE DigitsValue(_, _)
DigitsValue(s, acc) ==
    IF s = <<>> THEN acc ELSE DigitsValue(Tail(s), 10 * acc + DigitVal(Head(s)))

\* float(v): a number is kept; a string is stripped and read as an optionally
\* signed run of digits; anything else raises ValueError (ok = FALSE)
ParseFloat(v) ==
    IF v.t = "num" THEN [ok |-> TRUE, val |-> v.v]
    ELSE IF v.t # "str" THEN [ok |-> FALSE, val |-> 0]
    ELSE LET s == Strip(v.s)
             neg == s # <<>> /\ Head(s) = "-"
             body == IF s # <<>> /\ Head(s) \in {"-", "+"} THEN Tail(s) ELSE s
         IN  IF AllDigits(body)
             THEN [ok |-> TRUE,
                   val |-> IF neg THEN 0 - DigitsValue(body, 0) ELSE DigitsValue(body, 0)]
             ELSE [ok |-> FALSE, val |-> 0]

Num2(s, i) == 10 * DigitVal(s[i]) + DigitVal(s[i + 1])

\* YYYY-MM-DD with a month 01..12 and a day 01..31
IsIsoDate(s) ==
    /\ Len(s) = 10
    /\ \A i \in {1, 2, 3, 4, 6, 7, 9, 10} : s[i] \in Digits
    /\ s[5] = "-" /\ s[8] = "-"
    /\ Num2(s, 6) \in 1..12
    /\ Num2(s, 9) \in 1..31

\* THH:MM with an optional +HH:MM or -HH:MM offset
IsIsoTime(s) ==
    /\ Len(s) \in {6, 12}
    /\ s[1] = "T" /\ s[4] = ":"
    /\ \A i \in {2, 3, 5, 6} : s[i] \in Digits
    /\ Num2(s, 2) \in 0..23 /\ Num2(s, 5) \in 0..59
    /\ Len(s) = 12 =>
          /\ s[7] \in {"+", "-"} /\ s[10] = ":"
          /\ \A i \in {8, 9, 11, 12} : s[i] \in Digits
          /\ Num2(s, 8) \in 0..23 /\ Num2(s, 11) \in 0..59

UtcNow == <<"n", "o", "w">>

\* lines 67-76: the naive datetime of an ISO date or datetime string (the
\* offset is dropped by replace(tzinfo=None)), else utcnow()
ParseDate(date_str) ==
    IF ~Truthy(date_str) THEN UtcNow
    ELSE IF date_str.t # "str" THEN UtcNow
    ELSE LET s == date_str.s
         IN  IF IsIsoDate(s) THEN s
             ELSE IF Len(s) > 10 /\ IsIsoDate(SubSeq(s, 1, 10))
                     /\ IsIsoTime(SubSeq(s, 11, Len(s)))
                  THEN SubSeq(s, 1, 16)
             ELSE UtcNow

(***************************************************************************)
(* predict_category.  A category is a string; Python's None is CatNone.    *)
(***************************************************************************)
CatNone == "<None>"

Uncategorized == "Uncategorized"

\* The ways the remote call can end.  kind: "transport" (post raises:
\* unreachable, timeout), "status" (non-2xx), "badjson" (json() raises),
\* "json" (a parsed body).  A body is a dict or a list of elements; an element
\* is a number or a dict that may have a "labels" list.
Elem(t, has_labels, labels) == [t |-> t, has_labels |-> has_labels, labels |-> labels]

Response(kind, body_t, elems) == [kind |-> kind, body_t |-> body_t, elems |-> elems]

WellFormedBodies ==
    { Response("json", "list", <<Elem("dict", TRUE, <<"Groceries", "Rent">>)>>),
      Response("json", "list", <<Elem("dict", TRUE, <<"Dining">>),
                                 Elem("dict", TRUE, <<"Rent">>)>>) }

MalformedBodies ==
    { Response("json", "dict", <<>>),
      Response("json", "list", <<>>),
      Response("json", "list", <<Elem("num", FALSE, <<>>)>>),
      Response("json", "list", <<Elem("dict", FALSE, <<>>)>>),
      Response("json", "list", <<Elem("dict", TRUE, <<>>)>>) }

FailedCalls ==
    { Response("transport", "none", <<>>),
      Response("status", "none", <<>>),
      Response("badjson", "none", <<>>) }

Responses == WellFormedBodies \cup MalformedBodies \cup FailedCalls

\* lines 75-80: the test on the parsed body; "raise" is the TypeError of
\* `"labels" in result[0]` on a non-container
BodyTest(r) ==
    IF r.body_t # "list" THEN "else"
    ELSE IF Len(r.elems) = 0 THEN "else"
    ELSE IF r.elems[1].t # "dict" THEN "raise"
    ELSE IF ~r.elems[1].has_labels THEN "else"
    ELSE IF Len(r.elems[1].labels) = 0 THEN "else"
    ELSE "then"

\* lines 59-84, the body of the try: exc says an exception left the body
\* (post raised, json() raised, or the body test raised), slept whether the
\* asyncio.sleep(1.0) of line 73 was reached
TryBody(r) ==
    CASE r.kind = "transport" -> [exc |-> TRUE, label |-> CatNone, slept |-> FALSE]
      [] r.kind = "status" -> [exc |-> FALSE, label |-> Uncategorized, slept |-> FALSE]
      [] r.kind = "badjson" -> [exc |-> TRUE, label |-> CatNone, slept |-> FALSE]
      [] r.kind = "json" ->
           CASE BodyTest(r) = "then" ->
                  [exc |-> FALSE, label |-> r.elems[1].labels[1], slept |-> TRUE]
             [] BodyTest(r) = "else" ->
                  [exc |-> FALSE, label |-> Uncategorized, slept |-> TRUE]
             [] BodyTest(r) = "raise" ->
                  [exc |-> TRUE, label |-> CatNone, slept |-> TRUE]

\* a handler that lets the exception go
ExceptHandler_Reraise(b) == [label |-> CatNone, slept |-> b.slept, raised |-> TRUE]

\* lines 85-87: except Exception -> return "Uncategorized"
ExceptHandler(b) == [label |-> Uncategorized, slept |-> b.slept, raised |-> FALSE]

\* the last label instead of the first
RemoteCall_LastLabel(r) ==
    IF TryBody(r).exc
    THEN ExceptHandler(TryBody(r))
    ELSE [label |-> IF r.kind = "json" /\ BodyTest(r) = "then"
                    THEN r.elems[1].labels[Len(r.elems[1].labels)]
                    ELSE TryBody(r).label,
          slept |-> TryBody(r).slept, raised |-> FALSE]

\* lines 58-87 (a token is configured)
RemoteCall(r) ==
    IF TryBody(r).exc
    THEN ExceptHandler(TryBody(r))
    ELSE [label |-> TryBody(r).label, slept |-> TryBody(r).slept, raised |-> FALSE]

\* the token test left out
NeedsRemoteCall_Always(token) == TRUE

\* lines 52-56: does predict_category go on to the remote call?
NeedsRemoteCall(token) == token # ""

\* predict_category(text) under settings.HF_TOKEN = token, the remote call
\* ending as r: the label, and what the call did
predict_category(token, r) ==
    IF ~NeedsRemoteCall(token)
    THEN [label |-> Uncategorized, posted |-> FALSE, slept |-> FALSE, raised |-> FALSE,
          failed |-> FALSE]
    ELSE [label |-> RemoteCall(r).label, posted |-> TRUE,
          slept |-> RemoteCall(r).slept, raised |-> RemoteCall(r).raised,
          failed |-> r \notin WellFormedBodies]

(***************************************************************************)
(* Inputs of the model.                                                    *)
(***************************************************************************)
Users == {"u1", "u2"}

\* user_id arguments of process_csv_job: a UUID object, the text of a UUID,
\* a text that is no UUID
UuidArg(u) == [t |-> "uuid", v |-> u]

TextArg(x) == [t |-> "text", v |-> x]

NoArg == [t |-> "none", v |-> ""]

UserIdArgs == {UuidArg("u1"), TextArg("u1"), TextArg("u2"), TextArg("not-a-uuid")}

TextArgs == {TextArg("u1"), TextArg("u2"), TextArg("not-a-uuid")}

\* any text taken for the UUID of u1
ParseUserId_Lenient(user_id) ==
    IF user_id.t = "uuid" THEN user_id.v
    ELSE IF user_id.v \in Users THEN user_id.v
    ELSE "u1"

\* lines 42-51: the user's UUID, or "" when UUID(str(user_id)) raises
ParseUserId(user_id) ==
    IF user_id.t = "uuid" THEN user_id.v
    ELSE IF user_id.v \in Users THEN user_id.v
    ELSE ""

D_NET == <<"N", "E", "T">>

D_ENET == <<" ", "E", " ", "N", "e", "t">>

D_ACC == <<"A", "C", "C", " ", "1", "2", "3", "4", "5", "6", "7">>

D_REF == <<"X", "1", "2", "3", "4", "5", "6", "7">>

D_BLANK == <<" ">>

S_7 == <<" ", "7">>

S_abc == <<"a", "b", "c">>

S_date == <<"2", "0", "2", "5", "-", "1", "0", "-", "0", "3">>

S_datetz == S_date \o <<"T", "1", "0", ":", "0", "0", "+", "0", "2", ":", "0", "0">>

Row(description, Description, date, Date, amount, Amount) ==
    [description |-> description, Description |-> Description,
     date |-> date, Date |-> Date, amount |-> amount, Amount |-> Amount]

RowNet == Row(StrV(D_NET), NoneV, StrV(S_date), NoneV, StrV(S_7), NoneV)

RowENet == Row(StrV(<<>>), StrV(D_ENET), NoneV, StrV(S_datetz), NumV(0), NumV(5))

RowAcc == Row(StrV(D_ACC), NoneV, NoneV, NoneV, NoneV, NoneV)

RowBadAmount == Row(StrV(D_NET), NoneV, StrV(S_date), NoneV, StrV(S_abc), NoneV)

RowNaNDesc == Row(NumV(1), NoneV, StrV(S_date), NoneV, StrV(S_7), NoneV)

RowRef == Row(StrV(D_REF), NoneV, StrV(S_date), NoneV, StrV(S_7), NoneV)

RowEmpty == Row(StrV(<<>>), NoneV, StrV(S_date), NoneV, StrV(S_7), NoneV)

RowBlank == Row(StrV(D_BLANK), NoneV, StrV(S_abc), NoneV, StrV(S_7), NoneV)

RawRows == {RowNet, RowENet, RowAcc, RowRef, RowBadAmount, RowNaNDesc, RowBlank}

\* correction.correct_category: any str passes the schema, the empty one too
CorrectionCategories == {"Subscriptions", "Travel", ""}

Tokens == {"", "hf_token"}

(***************************************************************************)
(* State.                                                                  *)
(***************************************************************************)
VARIABLES
    categorization_rules,  \* table of CategoryRule: set of [id, user_id, keyword, category]
    transactions,          \* table of Transaction: sequence, the id is the index
    jobs,                  \* the process_csv_job invocations
    reqs,                  \* the correct_category requests
    HF_TOKEN,              \* settings.HF_TOKEN
    calls,                 \* the predict_category calls made on their own
    sanitized,             \* the sanitize_description calls made on their own
    uploads,               \* the upload_csv requests and what each did
    advices                \* the coach_advice requests and what each answered

vars == <<categorization_rules, transactions, jobs, reqs, HF_TOKEN, advices, calls, sanitized, uploads>>

JobIds == 1..MaxJobs

ReqIds == 1..MaxCorrections

IdleJob ==
    [pc |-> "idle", user_id |-> NoArg, user_uuid |-> "", raw_transactions |-> <<>>, i |-> 0,
     rules |-> <<>>, opened |-> FALSE, result |-> "none", log |-> <<>>]

IdleReq ==
    [pc |-> "idle", user |-> "", transaction_id |-> 0, correct_category |-> "",
     keyword |-> <<>>, existing |-> 0, rule_category |-> "", tx_category |-> "",
     tx_reviewed |-> FALSE, status |-> 0, foreign |-> FALSE]

Init ==
    /\ categorization_rules = {}
    /\ transactions = <<>>
    /\ jobs = [j \in JobIds |-> IdleJob]
    /\ reqs = [c \in ReqIds |-> IdleReq]
    /\ HF_TOKEN \in Tokens
    /\ calls = <<>>
    /\ sanitized = <<>>
    /\ uploads = <<>>
    /\ advices = <<>>

(***************************************************************************)
(* process_csv_job.                                                        *)
(***************************************************************************)
\* the orders in which the un-ORDERed SELECT of line 54 can return the rows
Orderings(S) ==
    { f \in [1..Cardinality(S) -> S] : \A a, b \in 1..Cardinality(S) : a # b => f[a] # f[b] }

HasKey(d, k) == \E n \in 1..Len(d) : d[n].keyword = k

\* d[k] = v on a dict kept in insertion order
DictSet(d, k, v) ==
    IF HasKey(d, k)
    THEN [n \in 1..Len(d) |-> IF d[n].keyword = k THEN [keyword |-> k, category |-> v] ELSE d[n]]
    ELSE Append(d, [keyword |-> k, category |-> v])

\* line 57: {r.keyword.lower(): r.category for r in rows}
RECURSIVE RulesDict(_, _)
RulesDict(rows, d) ==
    IF rows = <<>> THEN d
    ELSE RulesDict(Tail(rows), DictSet(d, Lower(Head(rows).keyword), Head(rows).category))

\* the rules of every user
UserRules_AllUsers(u) == categorization_rules

\* lines 53-56: select(CategoryRule).where(CategoryRule.user_id == user_uuid)
UserRules(u) == { r \in categorization_rules : r.user_id = u }

\* lines 81-85: the category of the first keyword contained in the text
RECURSIVE MatchRule(_, _)
MatchRule(rules, clean_desc_lower) ==
    IF rules = <<>> THEN CatNone
    ELSE IF Contains(clean_desc_lower, Head(rules).keyword) THEN Head(rules).category
    ELSE MatchRule(Tail(rules), clean_desc_lower)

\* `not category`
Falsy(category) == category = CatNone \/ category = ""

\* a date that does not parse fails the row
EvalRow_StrictDate(tx, rules) ==
    LET original_desc == PyOr(PyOr(tx.description, tx.Description), StrV(<<>>))
        clean_desc == sanitize_description(original_desc)
        date_str == PyOr(PyOr(tx.date, tx.Date), NoneV)
        amount == ParseFloat(PyOr(PyOr(tx.amount, tx.Amount), NumV(0)))
    IN  IF clean_desc.t # "str" \/ ~amount.ok \/ ParseDate(date_str) = UtcNow
        THEN [ok |-> FALSE, original_description |-> <<>>, clean_description |-> <<>>,
              date |-> <<>>, amount |-> 0, category |-> CatNone]
        ELSE [ok |-> TRUE, original_description |-> original_desc.s,
              clean_description |-> clean_desc.s, date |-> ParseDate(date_str),
              amount |-> amount.val, category |-> MatchRule(rules, Lower(clean_desc.s))]

\* lines 63-85 on one row: ok = FALSE when an exception leaves them
\* (.lower() on a non-str, float() on a non-number)
EvalRow(tx, rules) ==
    LET original_desc == PyOr(PyOr(tx.description, tx.Description), StrV(<<>>))
        clean_desc == sanitize_description(original_desc)
        date_str == PyOr(PyOr(tx.date, tx.Date), NoneV)
        amount == ParseFloat(PyOr(PyOr(tx.amount, tx.Amount), NumV(0)))
    IN  IF clean_desc.t # "str" \/ ~amount.ok
        THEN [ok |-> FALSE, original_description |-> <<>>, clean_description |-> <<>>,
              date |-> <<>>, amount |-> 0, category |-> CatNone]
        ELSE [ok |-> TRUE, original_description |-> original_desc.s,
              clean_description |-> clean_desc.s, date |-> ParseDate(date_str),
              amount |-> amount.val, category |-> MatchRule(rules, Lower(clean_desc.s))]

\* the description taken as it is, not trimmed
RawKeyword_NoStrip(tx) ==
    IF tx.clean_description # <<>> THEN tx.clean_description ELSE tx.original_description

\* correct_category, line 89: (tx.clean_description or tx.original_description or "").strip()
RawKeyword(tx) ==
    Strip(IF tx.clean_description # <<>> THEN tx.clean_description
          ELSE tx.original_description)

\* correct_category, line 96
Keyword(tx) == Lower(RawKeyword(tx))

\* the categories of all the rules of a dict whose keyword the text contains
Matching(rules, clean_desc_lower) ==
    { rules[n].category : n \in { m \in 1..Len(rules) :
                                     Contains(clean_desc_lower, rules[m].keyword) } }

\* the categories a dict gives the keyword k
Keyed(rules, k) ==
    { rules[n].category : n \in { m \in 1..Len(rules) : rules[m].keyword = k } }

\* what the rules of the job hold for the row it is at
Seen(job) ==
    LET tx == job.raw_transactions[job.i]
        original_desc == PyOr(PyOr(tx.description, tx.Description), StrV(<<>>))
        clean_desc == sanitize_description(original_desc)
    IN  IF clean_desc.t # "str" THEN [matches |-> {}, learned |-> {}]
        ELSE [matches |-> Matching(job.rules, Lower(clean_desc.s)),
              learned |-> Keyed(job.rules,
                                Keyword([clean_description |-> clean_desc.s,
                                         original_description |-> original_desc.s]))]

\* lines 90-97
NewTx(user_uuid, ev, category) ==
    [user_id |-> user_uuid, date |-> ev.date,
     original_description |-> ev.original_description,
     clean_description |-> ev.clean_description, amount |-> ev.amount,
     category |-> category, is_reviewed |-> FALSE]

\* what became of a row: outcome "saved", "row_error" (an exception before
\* the commit) or "commit_error"; predicted: predict_category was invoked;
\* failed: its remote call did not end with a well-formed body
\* matches: the categories of all the rules of the job whose keyword the
\* lowercased clean description contains; learned: the categories of the rules
\* of the job keyed on the keyword a correction derives from this description
\* text: the argument of predict_category (line 88), <<>> when it was not called
LogEntry(outcome, p, called, category, txid, seen, text) ==
    [outcome |-> outcome, predicted |-> called, failed |-> p.failed,
     category |-> category, txid |-> txid, matches |-> seen.matches,
     learned |-> seen.learned, text |-> text]

\* line 88: predict_category(clean_desc)
PredictArg(ev, called) == IF called THEN ev.clean_description ELSE <<>>

NoPredict == [label |-> CatNone, posted |-> FALSE, slept |-> FALSE, raised |-> FALSE,
              failed |-> FALSE]

\* a failed row ends the batch
Advance_AbortOnError(job, entry) ==
    IF job.i = Len(job.raw_transactions) \/ entry.outcome # "saved"
    THEN [job EXCEPT !.pc = "done", !.result = "True", !.rules = <<>>,
                     !.log = Append(@, entry)]
    ELSE [job EXCEPT !.pc = "rows", !.i = @ + 1, !.log = Append(@, entry)]

\* the loop goes to the next row, or the job returns True (line 118) and its
\* rules dict is gone
Advance(job, entry) ==
    IF job.i = Len(job.raw_transactions)
    THEN [job EXCEPT !.pc = "done", !.result = "True", !.rules = <<>>,
                     !.log = Append(@, entry)]
    ELSE [job EXCEPT !.pc = "rows", !.i = @ + 1, !.log = Append(@, entry)]

\* a row already stored for the user is updated, not added
Persist_Upsert(j, ev, category, p, called, commit_ok) ==
    LET same == { n \in 1..Len(transactions) :
                    /\ transactions[n].user_id = jobs[j].user_uuid
                    /\ transactions[n].original_description = ev.original_description
                    /\ transactions[n].amount = ev.amount }
        at == IF same = {} THEN Len(transactions) + 1 ELSE CHOOSE n \in same : TRUE
    IN  /\ transactions' =
              IF same = {} THEN Append(transactions, NewTx(jobs[j].user_uuid, ev, category))
              ELSE [transactions EXCEPT ![at] = NewTx(jobs[j].user_uuid, ev, category)]
        /\ jobs' = [jobs EXCEPT ![j] =
              Advance(@, LogEntry("saved", p, called, category, at, Seen(jobs[j]),
                                  PredictArg(ev, called)))]

\* lines 99-100 and 110-115: db.add, db.commit; a failing commit is rolled back
\* and the row skipped (the rollback itself succeeds)
Persist(j, ev, category, p, called, commit_ok) ==
    IF commit_ok
    THEN /\ transactions' = Append(transactions, NewTx(jobs[j].user_uuid, ev, category))
         /\ jobs' = [jobs EXCEPT ![j] =
                Advance(@, LogEntry("saved", p, called, category, Len(transactions) + 1,
                                    Seen(jobs[j]), PredictArg(ev, called)))]
    ELSE /\ transactions' = transactions
         /\ jobs' = [jobs EXCEPT ![j] =
                Advance(@, LogEntry("commit_error", p, called, category, 0, Seen(jobs[j]),
                                    PredictArg(ev, called)))]

InProgress == { k \in JobIds : jobs[k].pc \in {"rows", "http"} }

\* the rules are those the worker process held when it started: none
JobStart_CachedRules(j, user_id, raw_transactions, slots) ==
    /\ jobs[j].pc = "idle"
    /\ j > 1 => jobs[j - 1].pc # "idle"
    /\ Cardinality(InProgress) < slots
    /\ IF ParseUserId(user_id) = ""
       THEN jobs' = [jobs EXCEPT ![j] =
                [IdleJob EXCEPT !.pc = "done", !.user_id = user_id, !.result = "False"]]
       ELSE jobs' = [jobs EXCEPT ![j] =
                  [IdleJob EXCEPT !.pc = "rows", !.user_id = user_id,
                                  !.user_uuid = ParseUserId(user_id),
                                  !.raw_transactions = raw_transactions, !.i = 1,
                                  !.rules = <<>>, !.opened = TRUE]]
    /\ UNCHANGED <<categorization_rules, transactions, reqs, HF_TOKEN, advices, calls, sanitized, uploads>>

\* lines 39-59: the call, up to the first row; the worker has a free slot.
\* The session opens and the SELECT of the rules succeeds (a failure there
\* leaves the call as an exception, before any row).
JobStart(j, user_id, raw_transactions, slots) ==
    /\ jobs[j].pc = "idle"
    /\ j > 1 => jobs[j - 1].pc # "idle"
    /\ Cardinality(InProgress) < slots
    /\ IF ParseUserId(user_id) = ""
       THEN jobs' = [jobs EXCEPT ![j] =
                [IdleJob EXCEPT !.pc = "done", !.user_id = user_id, !.result = "False"]]
       ELSE \E rows \in Orderings(UserRules(ParseUserId(user_id))) :
              jobs' = [jobs EXCEPT ![j] =
                  [IdleJob EXCEPT !.pc = "rows", !.user_id = user_id,
                                  !.user_uuid = ParseUserId(user_id),
                                  !.raw_transactions = raw_transactions, !.i = 1,
                                  !.rules = RulesDict(rows, <<>>), !.opened = TRUE]]
    /\ UNCHANGED <<categorization_rules, transactions, reqs, HF_TOKEN, advices, calls, sanitized, uploads>>

\* the rules are read again for every row
JobRow_RereadsRules(j, commit_ok) ==
    /\ jobs[j].pc = "rows"
    /\ LET job == jobs[j]
           current == RulesDict(CHOOSE rows \in Orderings(UserRules(job.user_uuid)) : TRUE,
                                <<>>)
           ev == EvalRow(job.raw_transactions[job.i], current)
           p == predict_category(HF_TOKEN, CHOOSE r \in Responses : TRUE)
       IN  IF ~ev.ok
           THEN /\ jobs' = [jobs EXCEPT ![j] =
                       Advance(@, LogEntry("row_error", NoPredict, FALSE, CatNone, 0, Seen(job),
                                           PredictArg(ev, FALSE)))]
                /\ transactions' = transactions
           ELSE IF ~Falsy(ev.category)
           THEN Persist(j, ev, ev.category, NoPredict, FALSE, commit_ok)
           ELSE IF NeedsRemoteCall(HF_TOKEN)
           THEN /\ jobs' = [jobs EXCEPT ![j].pc = "http"]
                /\ transactions' = transactions
           ELSE Persist(j, ev, p.label, p, TRUE, commit_ok)
    /\ UNCHANGED <<categorization_rules, reqs, HF_TOKEN, advices, calls, sanitized, uploads>>

\* the rows taken from the last to the first
JobRow_Reversed(j, commit_ok) ==
    /\ jobs[j].pc = "rows"
    /\ LET job == jobs[j]
           ev == EvalRow(job.raw_transactions[Len(job.raw_transactions) + 1 - job.i],
                         job.rules)
           p == predict_category(HF_TOKEN, CHOOSE r \in Responses : TRUE)
       IN  IF ~ev.ok
           THEN /\ jobs' = [jobs EXCEPT ![j] =
                       Advance(@, LogEntry("row_error", NoPredict, FALSE, CatNone, 0, Seen(job),
                                           PredictArg(ev, FALSE)))]
                /\ transactions' = transactions
           ELSE IF ~Falsy(ev.category)
           THEN Persist(j, ev, ev.category, NoPredict, FALSE, commit_ok)
           ELSE IF NeedsRemoteCall(HF_TOKEN)
           THEN /\ jobs' = [jobs EXCEPT ![j].pc = "http"]
                /\ transactions' = transactions
           ELSE Persist(j, ev, p.label, p, TRUE, commit_ok)
    /\ UNCHANGED <<categorization_rules, reqs, HF_TOKEN, advices, calls, sanitized, uploads>>

\* lines 61-115 for row i, up to the await of the remote call if there is one;
\* commit_ok: does the db.commit() of line 100 succeed?
JobRow(j, commit_ok) ==
    /\ jobs[j].pc = "rows"
    /\ LET job == jobs[j]
           ev == EvalRow(job.raw_transactions[job.i], job.rules)
           p == predict_category(HF_TOKEN, CHOOSE r \in Responses : TRUE)
       IN  IF ~ev.ok
           THEN /\ jobs' = [jobs EXCEPT ![j] =
                       Advance(@, LogEntry("row_error", NoPredict, FALSE, CatNone, 0, Seen(job),
                                           PredictArg(ev, FALSE)))]
                /\ transactions' = transactions
           ELSE IF ~Falsy(ev.category)
           THEN Persist(j, ev, ev.category, NoPredict, FALSE, commit_ok)
           ELSE IF NeedsRemoteCall(HF_TOKEN)
           THEN /\ jobs' = [jobs EXCEPT ![j].pc = "http"]
                /\ transactions' = transactions
           ELSE Persist(j, ev, p.label, p, TRUE, commit_ok)
    /\ UNCHANGED <<categorization_rules, reqs, HF_TOKEN, advices, calls, sanitized, uploads>>

\* the worker keeps what the classifier said as a rule of the user
JobHttp_LearnsRule(j, r, commit_ok) ==
    /\ jobs[j].pc = "http"
    /\ LET job == jobs[j]
           ev == EvalRow(job.raw_transactions[job.i], job.rules)
           p == predict_category(HF_TOKEN, r)
       IN  /\ IF p.raised
              THEN /\ jobs' = [jobs EXCEPT ![j] =
                          Advance(@, LogEntry("row_error", p, TRUE, CatNone, 0, Seen(job),
                                              PredictArg(ev, TRUE)))]
                   /\ transactions' = transactions
              ELSE Persist(j, ev, p.label, p, TRUE, commit_ok)
           /\ categorization_rules' =
                 IF p.raised \/ \E q \in categorization_rules :
                                 q.user_id = job.user_uuid /\ q.keyword = Keyword(ev)
                 THEN categorization_rules
                 ELSE categorization_rules \cup
                        { [id |-> Cardinality(categorization_rules) + 1,
                           user_id |-> job.user_uuid, keyword |-> Keyword(ev),
                           category |-> p.label] }
    /\ UNCHANGED <<reqs, HF_TOKEN, advices, calls, sanitized, uploads>>

\* the remote call of row i ends as r; then lines 90-115
JobHttp(j, r, commit_ok) ==
    /\ jobs[j].pc = "http"
    /\ LET job == jobs[j]
           ev == EvalRow(job.raw_transactions[job.i], job.rules)
           p == predict_category(HF_TOKEN, r)
       IN  IF p.raised
           THEN /\ jobs' = [jobs EXCEPT ![j] =
                       Advance(@, LogEntry("row_error", p, TRUE, CatNone, 0, Seen(job),
                                           PredictArg(ev, TRUE)))]
                /\ transactions' = transactions
           ELSE Persist(j, ev, p.label, p, TRUE, commit_ok)
    /\ UNCHANGED <<categorization_rules, reqs, HF_TOKEN, advices, calls, sanitized, uploads>>

(***************************************************************************)
(* correct_category.                                                       *)
(***************************************************************************)
\* the ownership test left out
OwnedTx_AnyOwner(user, transaction_id) ==
    IF transaction_id \in 1..Len(transactions) THEN transaction_id ELSE 0

\* lines 80-84: the transaction with that id owned by the requester, else 0
OwnedTx(user, transaction_id) ==
    IF /\ transaction_id \in 1..Len(transactions)
       /\ transactions[transaction_id].user_id = user
    THEN transaction_id
    ELSE 0

\* lines 99-102: the rules with that user and keyword
ExistingRules(user, keyword) ==
    { r \in categorization_rules : r.user_id = user /\ r.keyword = keyword }

\* a request that has answered keeps its status only (and, for a 404, foreign:
\* the transaction exists and is another user's)
Answered(status) == [IdleReq EXCEPT !.pc = "done", !.status = status]

\* lines 79-115: the request up to the await of db.commit()
CorrectBegin(c, user, transaction_id, correct_category) ==
    /\ reqs[c].pc = "idle"
    /\ c > 1 => reqs[c - 1].pc # "idle"
    /\ LET id == OwnedTx(user, transaction_id)
       IN  IF id = 0
           THEN reqs' = [reqs EXCEPT ![c] =
                    [Answered(404) EXCEPT !.foreign = transaction_id \in 1..Len(transactions)]]
           ELSE IF RawKeyword(transactions[id]) = <<>>
           THEN reqs' = [reqs EXCEPT ![c] = Answered(400)]
           ELSE LET keyword == Keyword(transactions[id])
                    found == ExistingRules(user, keyword)
                IN  IF Cardinality(found) > 1
                    THEN reqs' = [reqs EXCEPT ![c] = Answered(500)]
                    ELSE reqs' = [reqs EXCEPT ![c] =
                        [pc |-> "commit", user |-> user, transaction_id |-> id,
                         correct_category |-> correct_category, keyword |-> keyword,
                         existing |-> IF found = {} THEN 0 ELSE (CHOOSE r \in found : TRUE).id,
                         rule_category |->
                             IF found = {} THEN "" ELSE (CHOOSE r \in found : TRUE).category,
                         tx_category |-> transactions[id].category,
                         tx_reviewed |-> transactions[id].is_reviewed,
                         status |-> 0, foreign |-> FALSE]]
    /\ UNCHANGED <<categorization_rules, transactions, jobs, HF_TOKEN, advices, calls, sanitized, uploads>>

\* no uniqueness constraint
UniqueOk_Unchecked(user, keyword) == TRUE

\* uq_user_keyword: may a row (user, keyword) be inserted?
UniqueOk(user, keyword) == ExistingRules(user, keyword) = {}

\* a correction that always inserts
FlushRule_AlwaysInsert(req) ==
    categorization_rules \cup
      { [id |-> Cardinality(categorization_rules) + 1, user_id |-> req.user,
         keyword |-> req.keyword, category |-> req.correct_category] }

\* the flush of the rule: an INSERT (lines 110-115) or, when the category set
\* differs from the one loaded, an UPDATE of the loaded row (lines 106-107)
FlushRule(req) ==
    IF req.existing = 0
    THEN categorization_rules \cup
           { [id |-> Cardinality(categorization_rules) + 1, user_id |-> req.user,
              keyword |-> req.keyword, category |-> req.correct_category] }
    ELSE IF req.rule_category = req.correct_category
    THEN categorization_rules
    ELSE { IF r.id = req.existing THEN [r EXCEPT !.category = req.correct_category] ELSE r :
             r \in categorization_rules }

\* every transaction of the requester with the description of the target is
\* given the category and marked reviewed
FlushTx_SameDescription(req) ==
    [n \in 1..Len(transactions) |->
        IF /\ transactions[n].user_id = req.user
           /\ transactions[n].original_description =
                 transactions[req.transaction_id].original_description
        THEN [transactions[n] EXCEPT !.category = req.correct_category, !.is_reviewed = TRUE]
        ELSE transactions[n]]

\* the reviewed flag left as it was
FlushTx_CategoryOnly(req) ==
    [transactions EXCEPT ![req.transaction_id] =
        [@ EXCEPT !.category = IF req.tx_category = req.correct_category
                               THEN @ ELSE req.correct_category]]

\* the flush of lines 118-119: the columns whose value differs from the loaded one
FlushTx(req) ==
    [transactions EXCEPT ![req.transaction_id] =
        [@ EXCEPT !.category = IF req.tx_category = req.correct_category
                               THEN @ ELSE req.correct_category,
                  !.is_reviewed = IF req.tx_reviewed THEN @ ELSE TRUE]]

\* a failing commit that keeps the rule
CorrectCommit_RuleKept(c, db_ok) ==
    /\ reqs[c].pc = "commit"
    /\ LET req == reqs[c]
       IN  IF db_ok /\ (req.existing # 0 \/ UniqueOk(req.user, req.keyword))
           THEN /\ categorization_rules' = FlushRule(req)
                /\ transactions' = FlushTx(req)
                /\ reqs' = [reqs EXCEPT ![c] = Answered(200)]
           ELSE /\ reqs' = [reqs EXCEPT ![c] = Answered(500)]
                /\ categorization_rules' = FlushRule(req)
                /\ UNCHANGED transactions
    /\ UNCHANGED <<jobs, HF_TOKEN, advices, calls, sanitized, uploads>>

\* lines 121-124: db.commit(); a failing commit (the database, or the
\* uniqueness constraint on the INSERT) raises and nothing is written
CorrectCommit(c, db_ok) ==
    /\ reqs[c].pc = "commit"
    /\ LET req == reqs[c]
       IN  IF db_ok /\ (req.existing # 0 \/ UniqueOk(req.user, req.keyword))
           THEN /\ categorization_rules' = FlushRule(req)
                /\ transactions' = FlushTx(req)
                /\ reqs' = [reqs EXCEPT ![c] = Answered(200)]
           ELSE /\ reqs' = [reqs EXCEPT ![c] = Answered(500)]
                /\ UNCHANGED <<categorization_rules, transactions>>
    /\ UNCHANGED <<jobs, HF_TOKEN, advices, calls, sanitized, uploads>>

(***************************************************************************)
(* The program: jobs and requests interleave at their awaits.  Run is the  *)
(* next-state relation for given sets of inputs and of outcomes of the     *)
(* remote call and of the row commits.                                     *)
(***************************************************************************)
Run(J, slots, args, batches, responses, commits, C, users, categories) ==
    \/ \E j \in J, user_id \in args, raw_transactions \in batches :
          JobStart(j, user_id, raw_transactions, slots)
    \/ \E j \in J, commit_ok \in commits : JobRow(j, commit_ok)
    \/ \E j \in J, r \in responses, commit_ok \in commits : JobHttp(j, r, commit_ok)
    \/ \E c \in C, user \in users, transaction_id \in 1..(Len(transactions) + 1),
          correct_category \in categories :
          CorrectBegin(c, user, transaction_id, correct_category)
    \/ \E c \in C, db_ok \in BOOLEAN : CorrectCommit(c, db_ok)

\* one response for each way predict_category leaves its try block
SomeResponses ==
    { Response("transport", "none", <<>>),
      Response("status", "none", <<>>),
      Response("json", "list", <<Elem("num", FALSE, <<>>)>>),
      Response("json", "list", <<Elem("dict", TRUE, <<>>)>>),
      Response("json", "list", <<Elem("dict", TRUE, <<"Groceries", "Rent">>)>>) }

\* The feedback loop: uploads of rows whose descriptions contain one another,
\* corrections by both users, a database that takes every row.
FeedbackRows == <<RowNet, RowENet>>

FeedbackBatches ==
    { [n \in 1..Len(b) |-> FeedbackRows[b[n]]] :
        b \in { c \in UNION { [1..n -> 1..Len(FeedbackRows)] : n \in 1..MaxRows } :
                  \A n \in 1..(Len(c) - 1) : c[n] < c[n + 1] } }

Next ==
    Run(JobIds, Slots, TextArgs, FeedbackBatches, SomeResponses, {TRUE},
        ReqIds, Users, CorrectionCategories)

Spec == Init /\ [][Next]_vars

(***************************************************************************)
(* One batch of any rows on a fresh database, whose commits may fail.      *)
(***************************************************************************)
MaxBatchRows == 3

WideBatches == UNION { [1..n -> RawRows] : n \in 1..MaxBatchRows }

NextBatch ==
    \/ \E user_id \in UserIdArgs, raw_transactions \in WideBatches :
          JobStart(1, user_id, raw_transactions, 1)
    \/ \E commit_ok \in BOOLEAN : JobRow(1, commit_ok)
    \/ \E r \in SomeResponses, commit_ok \in BOOLEAN : JobHttp(1, r, commit_ok)

SpecBatch == Init /\ [][NextBatch]_vars

(***************************************************************************)
(* predict_category on its own: every token, every end of the remote call. *)
(***************************************************************************)
MaxCalls == 2

Texts == {D_NET, SubFrom(D_ACC, 0)}

Predict(text, r) ==
    /\ Len(calls) < MaxCalls
    /\ calls' = Append(calls, [text |-> text, token |-> HF_TOKEN, response |-> r,
                               result |-> predict_category(HF_TOKEN, r)])
    /\ UNCHANGED <<categorization_rules, transactions, jobs, reqs, HF_TOKEN, advices, sanitized, uploads>>

NextPredict == \E text \in Texts, r \in Responses : Predict(text, r)

SpecPredict == Init /\ [][NextPredict]_vars

(***************************************************************************)
(* Corrections of what one batch saved: descriptions that are empty,       *)
(* blank, padded, masked.                                                  *)
(***************************************************************************)
KeywordRows == {RowNet, RowENet, RowAcc, RowEmpty, RowBlank}

KeywordBatches == UNION { [1..n -> KeywordRows] : n \in 1..MaxRows }

NextKeyword ==
    Run({1}, 1, {TextArg("u1")}, KeywordBatches, SomeResponses, {TRUE},
        ReqIds, {"u1"}, {"Travel"})

SpecKeyword == Init /\ [][NextKeyword]_vars

(***************************************************************************)
(* Corrections that race.  The database holds what a batch of two NET rows *)
(* for u1 left, and either no rule or the rule a correction of the first   *)
(* row to "Travel" left; two requests follow.                              *)
(***************************************************************************)
StoredNet(category, is_reviewed) ==
    [NewTx("u1", EvalRow(RowNet, <<>>), category) EXCEPT !.is_reviewed = is_reviewed]

InitRace ==
    /\ \/ /\ categorization_rules = {}
          /\ transactions = <<StoredNet(Uncategorized, FALSE), StoredNet(Uncategorized, FALSE)>>
       \/ /\ categorization_rules =
                { [id |-> 1, user_id |-> "u1", keyword |-> Keyword(StoredNet("Travel", TRUE)),
                   category |-> "Travel"] }
          /\ transactions = <<StoredNet("Travel", TRUE), StoredNet(Uncategorized, FALSE)>>
    /\ jobs = [j \in JobIds |-> IdleJob]
    /\ reqs = [c \in ReqIds |-> IdleReq]
    /\ HF_TOKEN \in Tokens
    /\ calls = <<>>
    /\ sanitized = <<>>
    /\ uploads = <<>>
    /\ advices = <<>>

NextRace ==
    \/ \E c \in ReqIds, user \in Users, transaction_id \in 1..(Len(transactions) + 1),
          correct_category \in CorrectionCategories :
          CorrectBegin(c, user, transaction_id, correct_category)
    \/ \E c \in ReqIds, db_ok \in BOOLEAN : CorrectCommit(c, db_ok)

SpecRace == InitRace /\ [][NextRace]_vars

(***************************************************************************)
(* Deliveries of payloads to the worker, one after the other or at the     *)
(* same time (arq runs up to max_jobs jobs at once), the same payload or   *)
(* not; every commit succeeds.                                             *)
(***************************************************************************)
DeliveryRows == {RowNet, RowAcc, RowBadAmount}

Deliveries == UNION { [1..n -> DeliveryRows] : n \in 1..MaxRows }

NextDeliver ==
    \/ \E j \in JobIds, user \in Users, raw_transactions \in Deliveries :
          JobStart(j, TextArg(user), raw_transactions, MaxJobs)
    \/ \E j \in JobIds : JobRow(j, TRUE)
    \/ \E j \in JobIds, r \in SomeResponses : JobHttp(j, r, TRUE)

SpecDeliver == Init /\ [][NextDeliver]_vars

(***************************************************************************)
(* upload_csv (app/routers/upload.py).  A file is its name and what        *)
(* pd.read_csv makes of its content: an exception, or the header and the   *)
(* rows.  Each request is handled in one step and recorded.                *)
(***************************************************************************)
MaxUploads == 1

DOT_CSV == <<".", "c", "s", "v">>

\* str.endswith
EndsWith(s, suffix) ==
    Len(s) >= Len(suffix) /\ SubSeq(s, Len(s) - Len(suffix) + 1, Len(s)) = suffix

Filenames == { <<"a", ".", "c", "s", "v">>,
               <<"a", ".", "t", "x", "t">>,
               <<"a", ".", "C", "S", "V">>,
               <<"c", "s", "v">>,
               <<"a", ".", "c", "s", "v", ".", "t", "x", "t">> }

\* lines 44-60
MAPPINGS ==
    << [standard_col |-> <<"d", "e", "s", "c", "r", "i", "p", "t", "i", "o", "n">>,
        alternatives |->
          << <<"p", "a", "y", "e", "e">>,
             <<"d", "e", "t", "a", "i", "l", "s">>,
             <<"m", "e", "m", "o">>,
             <<"t", "r", "a", "n", "s", "a", "c", "t", "i", "o", "n", "_", "d", "e", "t", "a", "i", "l", "s">>,
             <<"t", "r", "a", "n", "s", "a", "c", "t", "i", "o", "n", " ", "d", "e", "t", "a", "i", "l", "s">> >>],
       [standard_col |-> <<"a", "m", "o", "u", "n", "t">>,
        alternatives |->
          << <<"v", "a", "l", "u", "e">>,
             <<"d", "e", "b", "i", "t">>,
             <<"c", "r", "e", "d", "i", "t">>,
             <<"t", "r", "a", "n", "s", "_", "a", "m", "o", "u", "n", "t">>,
             <<"t", "r", "a", "n", "s", "a", "c", "t", "i", "o", "n", " ", "a", "m", "o", "u", "n", "t">> >>],
       [standard_col |-> <<"d", "a", "t", "e">>,
        alternatives |->
          << <<"t", "r", "a", "n", "s", "a", "c", "t", "i", "o", "n", "_", "d", "a", "t", "e">>,
             <<"t", "r", "a", "n", "s", "a", "c", "t", "i", "o", "n", " ", "d", "a", "t", "e">>,
             <<"p", "o", "s", "t", "e", "d", "_", "d", "a", "t", "e">>,
             <<"p", "o", "s", "t", "e", "d", " ", "d", "a", "t", "e">>,
             <<"t", "r", "a", "n", "s", "_", "d", "a", "t", "e">> >>] >>

Frame(columns, rows) == [parses |-> TRUE, columns |-> columns, rows |-> rows]

\* a content pd.read_csv raises on (an empty file: EmptyDataError)
EmptyFile == [parses |-> FALSE, columns |-> <<>>, rows |-> <<>>]

DescriptionHeaders == { <<>>, <<<<"D", "e", "s", "c", "r", "i", "p", "t", "i", "o", "n", " ">>>>, <<<<"p", "a", "y", "e", "e">>>>,
                        <<<<"m", "e", "m", "o">>, <<"P", "a", "y", "e", "e">>>> }

AmountHeaders == { <<>>, <<<<" ", "A", "m", "o", "u", "n", "t">>>>, <<<<"D", "e", "b", "i", "t">>>> }

DateHeaders == { <<>>, <<<<"D", "A", "T", "E">>>>, <<<<"t", "r", "a", "n", "s", "_", "d", "a", "t", "e">>>> }

OtherHeaders == { <<>>, <<<<"b", "a", "d">>>> }

Headers ==
    { o \o d \o a \o t : o \in OtherHeaders, d \in DescriptionHeaders,
                         a \in AmountHeaders, t \in DateHeaders } \ {<<>>}

\* the files: a header and no row or one row, whose cell in column k is k
Contents ==
    {EmptyFile} \cup
    UNION { { Frame(h, <<>>), Frame(h, <<[k \in 1..Len(h) |-> NumV(k)]>>) } : h \in Headers }

\* x in df.columns
InColumns(columns, x) == \E k \in 1..Len(columns) : columns[k] = x

\* lines 71-75: the first alternative that is a column, else <<>>
RECURSIVE FirstAlternative(_, _)
FirstAlternative(alternatives, columns) ==
    IF alternatives = <<>> THEN <<>>
    ELSE IF InColumns(columns, Head(alternatives)) THEN Head(alternatives)
    ELSE FirstAlternative(Tail(alternatives), columns)

\* lines 65-77: found_columns[standard_col], <<>> when the column is missing
FoundColumn(m, columns) ==
    IF InColumns(columns, MAPPINGS[m].standard_col)
    THEN MAPPINGS[m].standard_col
    ELSE FirstAlternative(MAPPINGS[m].alternatives, columns)

\* line 91: df.rename(columns={v: k for k, v in found_columns.items()})
Renamed(columns) ==
    [k \in 1..Len(columns) |->
        IF \E m \in 1..Len(MAPPINGS) : FoundColumn(m, columns) = columns[k]
        THEN MAPPINGS[CHOOSE m \in 1..Len(MAPPINGS) :
                         FoundColumn(m, columns) = columns[k]].standard_col
        ELSE columns[k]]

\* line 97: df.to_dict(orient="records"), a dict for each row: its items, a
\* column name that occurs again further right keeping the later cell
RECURSIVE Items(_, _, _)
Items(columns, cells, k) ==
    IF k > Len(columns) THEN <<>>
    ELSE IF \E l \in (k + 1)..Len(columns) : columns[l] = columns[k]
    THEN Items(columns, cells, k + 1)
    ELSE <<[key |-> columns[k], value |-> cells[k]]>> \o Items(columns, cells, k + 1)

ToDict(columns, rows) == [n \in 1..Len(rows) |-> Items(columns, rows[n], 1)]

UploadAnswer(status, body, created, enqueued) ==
    [status |-> status, body |-> body, pool_created |-> created, enqueued |-> enqueued]

\* lines 31-141.  redis_pool: the pool of the dependency, "None" when the
\* application has none (the module-level get_redis_pool, called without its
\* request, raises TypeError and leaves None); pool_ok: does create_pool
\* succeed; enqueue_ok: does enqueue_job succeed.  An exception that leaves
\* the handler is answered 500.
upload_csv(filename, content, user, redis_pool, pool_ok, enqueue_ok) ==
    IF ~EndsWith(filename, DOT_CSV)
    THEN UploadAnswer(400, "Only CSV files are supported.", FALSE, <<>>)
    ELSE IF ~content.parses
    THEN UploadAnswer(500, "Internal Server Error", FALSE, <<>>)
    ELSE LET columns == [k \in 1..Len(content.columns) |->
                            Lower(Strip(content.columns[k]))]
             missing_columns ==
                { m \in 1..Len(MAPPINGS) : FoundColumn(m, columns) = <<>> }
             records == ToDict(Renamed(columns), content.rows)
             job == [function |-> "process_csv_job", user_id |-> UuidArg(user),
                     transactions |-> records]
         IN  IF missing_columns # {}
             THEN UploadAnswer(400, "Invalid CSV format. Missing required columns",
                               FALSE, <<>>)
             ELSE IF redis_pool = "None" /\ ~pool_ok
             THEN UploadAnswer(503, "Background queue is not available", FALSE, <<>>)
             ELSE IF ~enqueue_ok
             THEN UploadAnswer(500, "Internal Server Error", redis_pool = "None", <<>>)
             ELSE UploadAnswer(200, "processing_started", redis_pool = "None", <<job>>)

Upload(filename, content, user, redis_pool, pool_ok, enqueue_ok) ==
    /\ Len(uploads) < MaxUploads
    /\ uploads' = Append(uploads,
          [filename |-> filename, content |-> content, user |-> user,
           answer |-> upload_csv(filename, content, user, redis_pool, pool_ok, enqueue_ok)])
    /\ UNCHANGED <<categorization_rules, transactions, jobs, reqs, HF_TOKEN, advices, calls, sanitized>>

NextUpload ==
    \E filename \in Filenames, content \in Contents, user \in Users,
       redis_pool \in {"pool", "None"}, pool_ok \in BOOLEAN, enqueue_ok \in BOOLEAN :
       Upload(filename, content, user, redis_pool, pool_ok, enqueue_ok)

SpecUpload == Init /\ [][NextUpload]_vars

(***************************************************************************)
(* coach_advice (app/routers/transactions.py) and generate_spending_advice *)
(* (app/services/ai_service.py).  An advice text is the template it was    *)
(* built from: origin "rules" with the branch of the rule-based generator, *)
(* or origin "llm" with the number of bullet lines kept.                   *)
(***************************************************************************)
MaxAdvices == 2

RuleBasedText(branch) == [origin |-> "rules", branch |-> branch, lines |-> 0]

LlmText(lines) == [origin |-> "llm", branch |-> "", lines |-> lines]

\* lines 95-188; percentage_used >= p is spent * 100 >= p * budget
_generate_rule_based_advice(spent, budget) ==
    LET AtLeast(p) == IF budget > 0 THEN spent * 100 >= p * budget ELSE 0 >= p
    IN  IF spent > budget THEN RuleBasedText("exceeded")
        ELSE IF AtLeast(90) THEN RuleBasedText("90")
        ELSE IF AtLeast(70) THEN RuleBasedText("70")
        ELSE IF AtLeast(50) THEN RuleBasedText("50")
        ELSE RuleBasedText("under50")

\* What the chat completion gives.  kind "error": create() or the access to
\* choices[0] raises; "none": message.content is None; "text": a content of
\* `stripped` characters after strip(), whose non-blank lines, once their
\* bullet markers and asterisks are removed, have `cleaned` characters and
\* hold one of the introductory phrases or not (banned).
Line(cleaned, banned) == [cleaned |-> cleaned, banned |-> banned]

Completion(kind, stripped, lines) == [kind |-> kind, stripped |-> stripped, lines |-> lines]

Completions ==
    { Completion("error", 0, <<>>),
      Completion("none", 0, <<>>),
      Completion("text", 20, <<Line(18, FALSE)>>),
      Completion("text", 40, <<Line(10, FALSE), Line(10, FALSE)>>),
      Completion("text", 40, <<Line(36, TRUE)>>),
      Completion("text", 60, <<Line(36, TRUE), Line(20, FALSE)>>),
      Completion("text", 200, <<Line(40, FALSE), Line(40, FALSE), Line(40, FALSE),
                                Line(40, FALSE)>>) }

\* lines 288-302: the lines kept, at most three
RECURSIVE FormattedLines(_, _)
FormattedLines(lines, kept) ==
    IF lines = <<>> \/ kept >= 3 THEN kept
    ELSE FormattedLines(Tail(lines),
                        IF Head(lines).cleaned > 10 /\ ~Head(lines).banned
                        THEN kept + 1 ELSE kept)

\* the value a call returns: a str, or a tuple (advice_text, source)
StrResult(text) == [t |-> "str", text |-> text, source |-> ""]

\* lines 191-353: the function returns a str on every path
generate_spending_advice(token, spent, budget, completion) ==
    IF token = ""
    THEN StrResult(_generate_rule_based_advice(spent, budget))
    ELSE IF completion.kind = "error"
    THEN StrResult(_generate_rule_based_advice(spent, budget))
    ELSE IF /\ completion.kind = "text"
            /\ completion.stripped > 20
            /\ FormattedLines(completion.lines, 0) >= 1
    THEN StrResult(LlmText(FormattedLines(completion.lines, 0)))
    ELSE StrResult(_generate_rule_based_advice(spent, budget))

\* the request months; strptime(month + "-01", "%Y-%m-%d") succeeds on the
\* first two
Months == { <<"2", "0", "2", "5", "-", "1", "0">>,
            <<"2", "0", "2", "5", "-", "1", "1">>,
            <<"2", "0", "2", "5", "-", "1", "3">> }

DAY_ONE == <<"-", "0", "1">>

\* utcnow() falls in this month
CurrentMonth == <<"2", "0", "2", "5", "-", "1", "1">>

\* lines 211-215: month_start <= date < next_month
InMonth(date, month) ==
    IF date = UtcNow THEN month = CurrentMonth ELSE SubSeq(date, 1, 7) = month

RECURSIVE SumAmounts(_, _, _)
SumAmounts(txs, user, month) ==
    IF txs = <<>> THEN 0
    ELSE (IF Head(txs).user_id = user /\ InMonth(Head(txs).date, month)
          THEN Head(txs).amount ELSE 0) + SumAmounts(Tail(txs), user, month)

Budgets == {0, 10, 14, 20, 28, 100}

\* lines 198-234: the answer to one request
coach_advice(user, month, budget_goal, completion) ==
    IF ~IsIsoDate(month \o DAY_ONE)
    THEN [status |-> 400, advice |-> RuleBasedText(""), source |-> ""]
    ELSE LET total_spent == SumAmounts(transactions, user, month)
             result == generate_spending_advice(HF_TOKEN, total_spent, budget_goal, completion)
         IN  IF result.t = "tuple"
             THEN [status |-> 200, advice |-> result.text, source |-> result.source]
             ELSE [status |-> 200, advice |-> result.text, source |-> "ai"]

CoachAdvice(user, month, budget_goal, completion) ==
    /\ Len(advices) < MaxAdvices
    /\ advices' = Append(advices,
          [user |-> user, month |-> month, budget_goal |-> budget_goal,
           answer |-> coach_advice(user, month, budget_goal, completion)])
    /\ UNCHANGED <<categorization_rules, transactions, jobs, reqs, HF_TOKEN, calls,
                   sanitized, uploads>>

\* the database holds two transactions of u1 of October 2025, 7 each
InitAdvice ==
    /\ categorization_rules = {}
    /\ transactions = <<StoredNet(Uncategorized, FALSE), StoredNet("Travel", TRUE)>>
    /\ jobs = [j \in JobIds |-> IdleJob]
    /\ reqs = [c \in ReqIds |-> IdleReq]
    /\ HF_TOKEN \in Tokens
    /\ calls = <<>>
    /\ sanitized = <<>>
    /\ uploads = <<>>
    /\ advices = <<>>

NextAdvice ==
    \E user \in Users, month \in Months, budget_goal \in Budgets, completion \in Completions :
       CoachAdvice(user, month, budget_goal, completion)

SpecAdvice == InitAdvice /\ [][NextAdvice]_vars

(***************************************************************************)
(* Batches of rows that differ in their date only, for u1, on the database *)
(* of InitRace (with or without the rule net -> Travel).                   *)
(***************************************************************************)
S_month13 == <<"2", "0", "2", "5", "-", "1", "3", "-", "0", "3">>

RowDateNone == Row(StrV(D_NET), NoneV, NoneV, NoneV, StrV(S_7), NoneV)

RowDateEmpty == Row(StrV(D_NET), NoneV, StrV(<<>>), NoneV, StrV(S_7), NoneV)

RowDateText == Row(StrV(D_NET), NoneV, StrV(S_abc), NoneV, StrV(S_7), NoneV)

RowDateNum == Row(StrV(D_NET), NoneV, NumV(7), NoneV, StrV(S_7), NoneV)

RowDateMonth13 == Row(StrV(D_NET), NoneV, NoneV, StrV(S_month13), StrV(S_7), NoneV)

RowDateTz == Row(StrV(D_NET), NoneV, NoneV, StrV(S_datetz), StrV(S_7), NoneV)

DateRows == {RowNet, RowDateTz, RowDateNone, RowDateEmpty, RowDateText, RowDateNum,
             RowDateMonth13}

DateBatches == UNION { [1..n -> DateRows] : n \in 1..MaxRows }

NextDates ==
    \/ \E raw_transactions \in DateBatches : JobStart(1, TextArg("u1"), raw_transactions, 1)
    \/ JobRow(1, TRUE)
    \/ \E r \in SomeResponses : JobHttp(1, r, TRUE)

SpecDates == InitRace /\ [][NextDates]_vars

(***************************************************************************)
(* sanitize_description on its own: a digit run between a prefix and a     *)
(* suffix, and values that are no str.                                     *)
(***************************************************************************)
MaxSanitize == 2

\* the first n digits of 1234567890123456
DigitRun(n) ==
    [i \in 1..n |-> CASE i % 10 = 1 -> "1" [] i % 10 = 2 -> "2" [] i % 10 = 3 -> "3"
                      [] i % 10 = 4 -> "4" [] i % 10 = 5 -> "5" [] i % 10 = 6 -> "6"
                      [] i % 10 = 7 -> "7" [] i % 10 = 8 -> "8" [] i % 10 = 9 -> "9"
                      [] OTHER -> "0"]

\* n digits with the separators sep after the third digit
SeparatedRun(n, sep) == SubSeq(DigitRun(n), 1, 3) \o sep \o SubSeq(DigitRun(n), 4, n)

RunLengths == {6, 7, 16}

RunSeparators == {<<>>, <<" ">>, <<"-", " ">>}

\* what stands before the run: nothing, a word, a letter, an underscore
Prefixes == {<<>>, <<"T", "X", " ">>, <<"X">>, <<"_">>}

\* what stands after the run: nothing, a word, a letter, a hyphen and a word
Suffixes == {<<>>, <<" ", "T", "X">>, <<"X">>, <<"-", "X">>}

NonStrings == {NoneV, NumV(1)}

Sanitize(prefix, run, suffix, description) ==
    /\ Len(sanitized) < MaxSanitize
    /\ sanitized' = Append(sanitized,
          [prefix |-> prefix, run |-> run, suffix |-> suffix, description |-> description,
           result |-> sanitize_description(description)])
    /\ UNCHANGED <<categorization_rules, transactions, jobs, reqs, HF_TOKEN, advices, calls, uploads>>

NextSanitize ==
    \/ \E prefix \in Prefixes, n \in RunLengths, sep \in RunSeparators, suffix \in Suffixes :
          Sanitize(prefix, SeparatedRun(n, sep), suffix,
                   StrV(prefix \o SeparatedRun(n, sep) \o suffix))
    \/ \E v \in NonStrings : Sanitize(<<>>, <<>>, <<>>, v)

SpecSanitize == Init /\ [][NextSanitize]_vars

(***************************************************************************)
(* The claims.                                                             *)
(***************************************************************************)
\* every row a job has gone through: the job, the row, what became of it
Entries ==
    { [j |-> j, n |-> n] : j \in JobIds, n \in 1..MaxBatchRows }

Done(x) == x.n <= Len(jobs[x.j].log)

EntryOf(x) == jobs[x.j].log[x.n]

RowOf(x) == jobs[x.j].raw_transactions[x.n]

Saved(e) == e.outcome = "saved"

\* C1: a row for which at least one rule of the user matches is given the
\* category of one matching rule and predict_category is not invoked for it,
\* whatever category the correction flow stored.
C1_RuleBeatsClassifier ==
    \A x \in Entries : Done(x) =>
        LET e == EntryOf(x)
        IN  e.matches # {} =>
              /\ ~e.predicted
              /\ Saved(e) => e.category \in e.matches

\* C2: a row whose description is that of a transaction corrected to C before
\* the batch read the rules is saved with category C, and predict_category is
\* not called for it, whatever C is and whatever other rules the user has.
C2_LearnedCategoryWins ==
    \A x \in Entries : Done(x) =>
        LET e == EntryOf(x)
        IN  \A c \in e.learned :
              /\ ~e.predicted
              /\ Saved(e) => e.category = c

\* does the store still hold what the request read at lines 99-102?
Unraced(req) ==
    IF req.existing = 0 THEN ExistingRules(req.user, req.keyword) = {}
    ELSE \E r \in categorization_rules :
            r.id = req.existing /\ r.category = req.rule_category

\* C3: a correction keyed on K that follows the earlier corrections keyed on K
\* (none committed since it read the store) leaves exactly one rule for
\* (user, K), with its category.
C3_SequentialOverwrite ==
    [][\A c \in ReqIds :
          (reqs[c].pc = "commit" /\ reqs'[c].status = 200 /\ Unraced(reqs[c])) =>
             LET found == { r \in categorization_rules' :
                              r.user_id = reqs[c].user /\ r.keyword = reqs[c].keyword }
             IN  /\ Cardinality(found) = 1
                 /\ \A r \in found : r.category = reqs[c].correct_category]_vars

\* two transactions with the same keyword corrected to different categories,
\* and one rule for the keyword
C3_Witness ==
    \E a, b \in 1..Len(transactions) :
        /\ a # b
        /\ transactions[a].user_id = transactions[b].user_id
        /\ transactions[a].is_reviewed /\ transactions[b].is_reviewed
        /\ Keyword(transactions[a]) = Keyword(transactions[b])
        /\ transactions[a].category # transactions[b].category
        /\ \E r \in categorization_rules :
              /\ r.user_id = transactions[b].user_id
              /\ r.keyword = Keyword(transactions[b])
              /\ r.category = transactions[b].category

\* C4: at most one rule per (user, keyword), in every reachable state.
C4_OneRulePerKeyword ==
    \A r1, r2 \in categorization_rules :
        (r1.user_id = r2.user_id /\ r1.keyword = r2.keyword) => r1 = r2

\* a request that read no rule for its keyword is about to insert one, and
\* another request has inserted it meanwhile
C4_Witness ==
    \E c \in ReqIds :
        /\ reqs[c].pc = "commit" /\ reqs[c].existing = 0
        /\ ExistingRules(reqs[c].user, reqs[c].keyword) # {}

\* the rows that went through and were saved
SavedRows == { x \in Entries : Done(x) /\ Saved(EntryOf(x)) }

\* the description a row is read with (line 63)
DescriptionOf(tx) == PyOr(PyOr(tx.description, tx.Description), StrV(<<>>))

\* C5: a row that fails (an exception while it is parsed, or a failing commit)
\* leaves no transaction; every other row, before or after it, leaves exactly
\* one, its own; the loop goes through every row and the call returns True.
C5_RowFailureIsolated ==
    /\ \A x \in Entries : Done(x) =>
          LET e == EntryOf(x)
          IN  IF Saved(e)
              THEN /\ e.txid \in 1..Len(transactions)
                   /\ transactions[e.txid].user_id = jobs[x.j].user_uuid
                   /\ transactions[e.txid].original_description = DescriptionOf(RowOf(x)).s
              ELSE e.txid = 0
    /\ \A x, y \in SavedRows : x # y => EntryOf(x).txid # EntryOf(y).txid
    /\ Len(transactions) = Cardinality(SavedRows)
    /\ \A j \in JobIds :
          /\ jobs[j].pc \in {"rows", "http"} => jobs[j].i = Len(jobs[j].log) + 1
          /\ jobs[j].pc = "done" /\ jobs[j].opened =>
                /\ jobs[j].result = "True"
                /\ Len(jobs[j].log) = Len(jobs[j].raw_transactions)

\* a batch of three rows that returned, the second row failed, the first and
\* the third saved
C5_Witness ==
    \E j \in JobIds :
        /\ jobs[j].pc = "done" /\ Len(jobs[j].log) = 3
        /\ Saved(jobs[j].log[1]) /\ ~Saved(jobs[j].log[2]) /\ Saved(jobs[j].log[3])
        /\ Len(transactions) = 2

\* an amount that is not there, or a text with no digit in it
NotANumber(v) == v.t = "none" \/ (v.t = "str" /\ \A n \in 1..Len(v.s) : v.s[n] \notin Digits)

MissingOrUnparseableAmount(tx) ==
    /\ NotANumber(tx.amount)
    /\ tx.amount.t = "none" => NotANumber(tx.Amount)

\* C6: a row with a missing or unparseable amount (its description a text, its
\* commit not failing) is saved with amount 0, not skipped.
C6_BadAmountSavedAsZero ==
    \A x \in Entries : Done(x) =>
        LET e == EntryOf(x)
        IN  (/\ MissingOrUnparseableAmount(RowOf(x))
             /\ DescriptionOf(RowOf(x)).t = "str"
             /\ e.outcome # "commit_error") =>
               /\ Saved(e)
               /\ transactions[e.txid].amount = 0

\* is the argument a UUID or the text of one?
IsUuid(user_id) == user_id.t = "uuid" \/ (user_id.t = "text" /\ user_id.v \in Users)

\* C7: a call whose user_id is no UUID returns False with no session opened,
\* no rule read, no row gone through, no remote call and no transaction saved;
\* a call whose user_id is one opens the session and returns nothing but True.
C7_InvalidUserIdReturnsFalse ==
    \A j \in JobIds : jobs[j].pc # "idle" =>
        IF IsUuid(jobs[j].user_id)
        THEN /\ jobs[j].opened
             /\ jobs[j].result # "False"
             /\ jobs[j].pc = "done" => jobs[j].result = "True"
        ELSE /\ jobs[j].pc = "done" /\ jobs[j].result = "False"
             /\ ~jobs[j].opened
             /\ jobs[j].rules = <<>> /\ jobs[j].log = <<>>
             /\ jobs[j].raw_transactions = <<>>
             /\ \A n \in 1..Len(transactions) : \E x \in SavedRows : EntryOf(x).txid = n

\* a call with a text that is no UUID has returned
C7_Witness ==
    \E j \in JobIds : jobs[j].pc = "done" /\ jobs[j].user_id = TextArg("not-a-uuid")

\* C8: a row that no rule matches and whose remote call fails is saved, with
\* category "Uncategorized", which its transaction keeps until it is corrected.
C8_ClassifierFailureKeepsRow ==
    \A x \in Entries : Done(x) =>
        LET e == EntryOf(x)
        IN  e.matches = {} /\ e.predicted /\ e.failed =>
              /\ Saved(e)
              /\ e.category = Uncategorized
              /\ ~transactions[e.txid].is_reviewed =>
                    transactions[e.txid].category = Uncategorized

\* a saved row whose remote call failed
C8_Witness ==
    \E x \in Entries : Done(x) /\ Saved(EntryOf(x))
        /\ EntryOf(x).matches = {} /\ EntryOf(x).predicted /\ EntryOf(x).failed

\* C9: predict_category never raises; it returns "Uncategorized" when the
\* remote call fails or its body is malformed, and the first label of the
\* first element on a well-formed body.
C9_PredictNeverRaises ==
    \A n \in 1..Len(calls) :
        LET call == calls[n]
        IN  /\ ~call.result.raised
            /\ call.token # "" =>
                 IF call.response \in WellFormedBodies
                 THEN call.result.label = call.response.elems[1].labels[1]
                 ELSE call.result.label = Uncategorized

\* with a token: a call whose body was well-formed with two labels, and a call
\* that could not reach the endpoint
C9_Witness ==
    \E n, m \in 1..Len(calls) :
        /\ calls[n].token # "" /\ calls[n].response \in WellFormedBodies
        /\ Len(calls[n].response.elems[1].labels) = 2
        /\ calls[m].response.kind = "transport"

\* C10: with no HF_TOKEN, predict_category returns "Uncategorized" with no
\* remote call and no sleep, whatever the text.
C10_NoTokenNoCall ==
    \A n \in 1..Len(calls) :
        calls[n].token = "" =>
            /\ calls[n].result.label = Uncategorized
            /\ ~calls[n].result.posted
            /\ ~calls[n].result.slept
            /\ ~calls[n].result.raised

\* with no token, a call for each text
C10_Witness ==
    /\ HF_TOKEN = ""
    /\ \A text \in Texts : \E n \in 1..Len(calls) : calls[n].text = text

\* the number of digits of s
RECURSIVE DigitCount(_)
DigitCount(s) ==
    IF s = <<>> THEN 0 ELSE (IF Head(s) \in Digits THEN 1 ELSE 0) + DigitCount(Tail(s))

\* C12: a run of 7 to 16 digits, separated or not, is replaced by "[REDACTED]"
\* whatever stands before and after it, and the rest of the text is left as it
\* was; a shorter run and a value that is no str are returned unchanged.
C12_RunRedactedAnywhere ==
    \A n \in 1..Len(sanitized) :
        LET call == sanitized[n]
        IN  IF call.description.t # "str" THEN call.result = call.description
            ELSE IF DigitCount(call.run) \in PiiMinDigits..PiiMaxDigits
            THEN call.result = StrV(call.prefix \o REDACTED \o call.suffix)
            ELSE call.result = call.description

\* a stretch of s made of digits and separators, from a digit to a digit
DigitSpan(s, p, q) ==
    /\ s[p] \in Digits /\ s[q] \in Digits
    /\ \A i \in p..q : s[i] \in Digits \cup Separators

\* s holds an account-number-like run: a longest stretch of 7 to 16 digits,
\* separated or not
HasAccountRun(s) ==
    \E p, q \in 1..Len(s) :
        /\ p <= q /\ DigitSpan(s, p, q)
        /\ DigitCount(SubSeq(s, p, q)) \in PiiMinDigits..PiiMaxDigits
        /\ \A a, b \in 1..Len(s) :
              (a <= p /\ q <= b /\ DigitSpan(s, a, b)) => (a = p /\ b = q)

\* C11: no description field of a saved transaction and no text given to
\* predict_category holds an unmasked account-number-like digit run.
C11_NoAccountRunReachesSink ==
    /\ \A n \in 1..Len(transactions) :
          /\ ~HasAccountRun(transactions[n].clean_description)
          /\ ~HasAccountRun(transactions[n].original_description)
    /\ \A x \in Entries : Done(x) => ~HasAccountRun(EntryOf(x).text)

\* C13: a correction of a transaction that does not exist or is another
\* user's answers 404 and writes nothing; whatever step changes a transaction
\* or a rule is the commit of a correction by the owner of the transaction,
\* and the rule it writes is the owner's, keyed on that transaction.
C13_OnlyOwnerCorrects ==
    [][/\ \A c \in ReqIds, user \in Users, transaction_id \in 1..(Len(transactions) + 1),
             correct_category \in CorrectionCategories :
             CorrectBegin(c, user, transaction_id, correct_category) =>
                LET owned == /\ transaction_id \in 1..Len(transactions)
                             /\ transactions[transaction_id].user_id = user
                IN  /\ ~owned <=> reqs'[c].status = 404
                    /\ ~owned => reqs'[c].pc = "done"
                    /\ transactions' = transactions
                    /\ categorization_rules' = categorization_rules
       /\ \A n \in 1..Len(transactions) :
             (transactions'[n].category # transactions[n].category
                \/ transactions'[n].is_reviewed # transactions[n].is_reviewed) =>
                \E c \in ReqIds :
                    /\ reqs[c].pc = "commit" /\ reqs'[c].status = 200
                    /\ reqs[c].transaction_id = n
                    /\ reqs[c].user = transactions[n].user_id
       /\ \A r \in categorization_rules' \ categorization_rules :
             \E c \in ReqIds :
                 /\ reqs[c].pc = "commit" /\ reqs'[c].status = 200
                 /\ r.user_id = reqs[c].user
                 /\ transactions[reqs[c].transaction_id].user_id = reqs[c].user
                 /\ r.keyword = Keyword(transactions[reqs[c].transaction_id])]_vars

\* a correction of another user's transaction has answered 404, and that
\* transaction is as the batch saved it
C13_Witness ==
    \E c \in ReqIds :
        /\ reqs[c].status = 404 /\ reqs[c].foreign
        /\ \A n \in 1..Len(transactions) : ~transactions[n].is_reviewed
        /\ categorization_rules = {}

\* C14: the keyword of a correction is the trimmed lowercased clean
\* description, or the trimmed lowercased original one when the clean one is
\* empty, and the correction answers 400 if and only if both are empty.
C14_KeywordOrBothEmpty ==
    [][\A c \in ReqIds, transaction_id \in 1..Len(transactions) :
          CorrectBegin(c, transactions[transaction_id].user_id, transaction_id, "Travel") =>
             LET tx == transactions[transaction_id]
             IN  /\ reqs'[c].status = 400 <=>
                       (tx.clean_description = <<>> /\ tx.original_description = <<>>)
                 /\ reqs'[c].pc = "commit" =>
                       reqs'[c].keyword =
                          IF tx.clean_description = <<>>
                          THEN Lower(Strip(tx.original_description))
                          ELSE Lower(Strip(tx.clean_description))]_vars

\* C14 as amended: the description of the correction is the clean one, or the
\* original one when the clean one is empty; the correction answers 400 if and
\* only if that description is empty once trimmed (a description of blanks
\* included), and else its keyword is that description trimmed and lowercased.
C14_KeywordOrBlank ==
    [][\A c \in ReqIds, transaction_id \in 1..Len(transactions) :
          CorrectBegin(c, transactions[transaction_id].user_id, transaction_id, "Travel") =>
             LET tx == transactions[transaction_id]
                 d == IF tx.clean_description = <<>> THEN tx.original_description
                      ELSE tx.clean_description
             IN  /\ reqs'[c].status = 400 <=> Strip(d) = <<>>
                 /\ Strip(d) = <<>> => reqs'[c].pc = "done"
                 /\ Strip(d) # <<>> =>
                       /\ reqs'[c].pc = "commit"
                       /\ reqs'[c].keyword = Lower(Strip(d))
                       /\ reqs'[c].keyword # <<>>]_vars

\* a correction of a transaction whose description is one blank has answered
\* 400, and a correction of a padded description is keyed on it trimmed
C14_Witness ==
    /\ \E c \in ReqIds : reqs[c].status = 400
    /\ \E n \in 1..Len(transactions) : transactions[n].clean_description = D_BLANK
    /\ \E c \in ReqIds :
          /\ reqs[c].pc = "commit"
          /\ transactions[reqs[c].transaction_id].clean_description = D_ENET
          /\ reqs[c].keyword = <<"e", " ", "n", "e", "t">>

\* what a correction that answers 200 is to leave: the transaction with its
\* category and reviewed, and one rule (user, keyword of the transaction) with
\* its category
Corrected(req) ==
    /\ transactions'[req.transaction_id].category = req.correct_category
    /\ transactions'[req.transaction_id].is_reviewed
    /\ \E r \in categorization_rules' :
          /\ r.user_id = req.user
          /\ r.keyword = Keyword(transactions[req.transaction_id])
          /\ r.category = req.correct_category

\* C15: after a correction that answers 200 the transaction has category C
\* and is reviewed, and the rule of (U, keyword of T) has category C, whether
\* the rule existed or not.
C15_CorrectionPostcondition ==
    [][\A c \in ReqIds :
          (reqs[c].pc = "commit" /\ reqs'[c].status = 200) => Corrected(reqs[c])]_vars

\* has anything the request read (lines 80-102) been changed since?
Undisturbed(req) ==
    /\ Unraced(req)
    /\ transactions[req.transaction_id].category = req.tx_category
    /\ transactions[req.transaction_id].is_reviewed = req.tx_reviewed

\* C15 as amended: the same, for a correction between whose reads and commit
\* no other correction of that rule or transaction has committed.
C15_UndisturbedPostcondition ==
    [][\A c \in ReqIds :
          (reqs[c].pc = "commit" /\ reqs'[c].status = 200 /\ Undisturbed(reqs[c])) =>
             Corrected(reqs[c])]_vars

\* two corrections of the second transaction have answered 200 and it is
\* reviewed, with the category of the one rule
C15_Witness ==
    /\ \A c \in ReqIds : reqs[c].status = 200
    /\ transactions[2].is_reviewed
    /\ \E r \in categorization_rules :
          r.category = transactions[2].category /\ r.keyword = Keyword(transactions[2])
    /\ Cardinality(categorization_rules) = 1

\* the database of InitRace after a correction: a state of Spec
RaceStateReached ==
    /\ Len(transactions) = 2
    /\ transactions[1] = StoredNet("Travel", TRUE)
    /\ transactions[2] = StoredNet(Uncategorized, FALSE)
    /\ \E r \in categorization_rules : categorization_rules = {r} /\ r.category = "Travel"

\* the steps of correct_category
RequestSteps(c) == reqs[c].pc # "done" /\ reqs'[c] # reqs[c]

C17_ConflictAbsorbed ==
    [][\A c \in ReqIds : CorrectCommit(c, TRUE) =>
          /\ reqs'[c].status = 200
          /\ Cardinality({ r \in categorization_rules' :
                             r.user_id = reqs[c].user /\ r.keyword = reqs[c].keyword }) = 1
          /\ \A r \in categorization_rules' :
                (r.user_id = reqs[c].user /\ r.keyword = reqs[c].keyword) =>
                   \/ r.category = reqs[c].correct_category
                   \/ r \in categorization_rules]_vars

\* the rows of a payload that do not fail (a text for description, a number
\* or nothing for amount)
NonFailing(raw_transactions) ==
    { n \in 1..Len(raw_transactions) :
        /\ DescriptionOf(raw_transactions[n]).t = "str"
        /\ ~(raw_transactions[n].amount.t = "str"
               /\ NotANumber(raw_transactions[n].amount)) }

\* C18: every delivery of a payload saves one new transaction for each of its
\* k non-failing rows, so n deliveries of it leave n*k transactions; no
\* delivery changes a transaction that is there.
C18_RedeliveryDuplicates ==
    /\ [](/\ \A j \in JobIds : jobs[j].pc = "done" /\ jobs[j].opened =>
                Cardinality({ x \in SavedRows : x.j = j }) =
                   Cardinality(NonFailing(jobs[j].raw_transactions))
          /\ \A x, y \in SavedRows : x # y => EntryOf(x).txid # EntryOf(y).txid
          /\ (\A j \in JobIds :
                 /\ jobs[j].pc = "done"
                 /\ jobs[j].user_id = jobs[1].user_id
                 /\ jobs[j].raw_transactions = jobs[1].raw_transactions) =>
                Len(transactions) =
                   MaxJobs * Cardinality(NonFailing(jobs[1].raw_transactions)))
    /\ [][\A n \in 1..Len(transactions) :
             Len(transactions') >= n /\ transactions'[n] = transactions[n]]_vars

\* the same payload of two non-failing rows delivered twice for one user, the
\* two jobs running at the same time: four transactions
C18_Witness ==
    /\ \A j \in JobIds : /\ jobs[j].pc = "done"
                         /\ jobs[j].user_id = jobs[1].user_id
                         /\ jobs[j].raw_transactions = jobs[1].raw_transactions
    /\ Cardinality(NonFailing(jobs[1].raw_transactions)) = 2
    /\ Len(transactions) = 4
    /\ jobs[1].log[2].txid > jobs[2].log[1].txid
    /\ jobs[2].log[2].txid > jobs[1].log[1].txid

\* what the database holds for user u
OwnedBy(u) ==
    [rules |-> { r \in categorization_rules : r.user_id = u },
     transactions |-> { <<n, transactions[n]>> :
                          n \in { m \in 1..Len(transactions) : transactions[m].user_id = u } }]

\* C19: a job of user U loads rules of U only and adds transactions of U only;
\* a correction of U reads and writes a rule of U and a transaction of U only;
\* what the database holds for U changes in steps of U's jobs and requests only.
C19_UserIsolation ==
    [][/\ \A j \in JobIds : jobs[j].pc = "idle" /\ jobs'[j].pc = "rows" =>
             \A n \in 1..Len(jobs'[j].rules) :
                \E r \in categorization_rules :
                   /\ r.user_id = jobs'[j].user_uuid
                   /\ Lower(r.keyword) = jobs'[j].rules[n].keyword
                   /\ r.category = jobs'[j].rules[n].category
       /\ \A n \in (Len(transactions) + 1)..Len(transactions') :
             \E j \in JobIds : /\ jobs'[j] # jobs[j]
                               /\ transactions'[n].user_id = jobs[j].user_uuid
       /\ \A c \in ReqIds : reqs[c].pc = "idle" /\ reqs'[c].pc = "commit" =>
             /\ transactions[reqs'[c].transaction_id].user_id = reqs'[c].user
             /\ reqs'[c].existing # 0 =>
                   \E r \in categorization_rules :
                      r.id = reqs'[c].existing /\ r.user_id = reqs'[c].user
       /\ \A c \in ReqIds : reqs[c].pc = "commit" /\ reqs'[c] # reqs[c] =>
             /\ \A r \in (categorization_rules' \ categorization_rules)
                           \cup (categorization_rules \ categorization_rules') :
                   r.user_id = reqs[c].user
             /\ \A n \in 1..Len(transactions) :
                   transactions'[n] # transactions[n] =>
                      /\ transactions[n].user_id = reqs[c].user
                      /\ transactions'[n].user_id = reqs[c].user
       /\ \A u \in Users : OwnedBy(u)' # OwnedBy(u) =>
             \/ \E j \in JobIds : jobs'[j] # jobs[j] /\ jobs[j].user_uuid = u
             \/ \E c \in ReqIds : /\ reqs[c].pc = "commit" /\ reqs'[c] # reqs[c]
                                  /\ reqs[c].user = u
      ]_vars

\* a finished job of one user that loaded no rule and saved a row which a rule
\* of the other user matches, under another category than that rule's
C19_Witness ==
    \E x \in SavedRows, r \in categorization_rules :
       /\ jobs[x.j].pc = "done"
       /\ jobs[x.j].rules = <<>>
       /\ r.user_id # jobs[x.j].user_uuid
       /\ transactions[EntryOf(x).txid].user_id = jobs[x.j].user_uuid
       /\ Contains(Lower(transactions[EntryOf(x).txid].clean_description), Lower(r.keyword))
       /\ transactions[EntryOf(x).txid].category # r.category

\* the file has a column which, trimmed and in lower case, is that standard
\* name or one of its alternatives
HasRequired(content, m) ==
    \E k \in 1..Len(content.columns) :
       \/ Lower(Strip(content.columns[k])) = MAPPINGS[m].standard_col
       \/ InColumns(MAPPINGS[m].alternatives, Lower(Strip(content.columns[k])))

ValidUpload(u) ==
    /\ EndsWith(u.filename, DOT_CSV)
    /\ \A m \in 1..Len(MAPPINGS) : HasRequired(u.content, m)

\* C20: an upload whose file name does not end in .csv or whose file lacks a
\* description, amount or date column (or an alternative name of one) is
\* answered 400 with no pool created and no job enqueued; any other upload
\* enqueues exactly one process_csv_job job with the requester's id and the
\* rows and is answered processing_started.
C20_EnqueueOnlyValid ==
    \A n \in 1..Len(uploads) :
       LET u == uploads[n] IN
       IF ~ValidUpload(u)
       THEN /\ u.answer.status = 400
            /\ ~u.answer.pool_created
            /\ u.answer.enqueued = <<>>
       ELSE /\ u.answer.status = 200
            /\ u.answer.body = "processing_started"
            /\ Len(u.answer.enqueued) = 1
            /\ u.answer.enqueued[1].function = "process_csv_job"
            /\ u.answer.enqueued[1].user_id.v = u.user
            /\ Len(u.answer.enqueued[1].transactions) = Len(u.content.rows)
            /\ \A r \in 1..Len(u.content.rows), m \in 1..Len(MAPPINGS) :
                  \E k \in 1..Len(u.answer.enqueued[1].transactions[r]) :
                     u.answer.enqueued[1].transactions[r][k].key = MAPPINGS[m].standard_col

\* C21: in every answer of coach_advice the source is "rule_based" when the
\* text came from the rule-based generator and "ai" only when the text came
\* from the LLM.
C21_SourceNamesOrigin ==
    \A n \in 1..Len(advices) :
       advices[n].answer.status = 200 =>
          /\ advices[n].answer.advice.origin = "rules" =>
                advices[n].answer.source = "rule_based"
          /\ advices[n].answer.source = "ai" => advices[n].answer.advice.origin = "llm"

\* C22: a job reads the rules of its user in the step that starts it, before
\* any row, and not again; the dict it then holds has an item for every rule
\* committed for the user at that moment, and for nothing else.
C22_RulesReadOncePerBatch ==
    [][\A j \in JobIds :
          /\ jobs[j].pc = "idle" => jobs[j].rules = <<>> /\ jobs[j].log = <<>>
          /\ jobs[j].pc = "idle" /\ jobs'[j].pc = "rows" =>
                LET committed == { r \in categorization_rules :
                                      r.user_id = jobs'[j].user_uuid }
                IN  /\ Len(jobs'[j].rules) = Cardinality(committed)
                    /\ \A r \in committed :
                          \E n \in 1..Len(jobs'[j].rules) :
                             jobs'[j].rules[n] =
                                [keyword |-> Lower(r.keyword), category |-> r.category]
                    /\ jobs'[j].log = <<>>
          /\ jobs[j].pc \in {"rows", "http"} /\ jobs'[j].pc \in {"rows", "http"} =>
                jobs'[j].rules = jobs[j].rules
      ]_vars

\* two batches of one user, the first matched against no rule, a correction
\* of one of its transactions, the second saved a row by the rule learned
C22_Witness ==
    /\ \A j \in JobIds : jobs[j].pc = "done" /\ jobs[j].user_uuid = jobs[1].user_uuid
    /\ \A n \in 1..Len(jobs[1].log) : jobs[1].log[n].matches = {}
    /\ \E n \in 1..Len(jobs[1].log) :
          /\ Saved(jobs[1].log[n])
          /\ transactions[jobs[1].log[n].txid].is_reviewed
    /\ \E n \in 1..Len(jobs[2].log) :
          /\ Saved(jobs[2].log[n])
          /\ ~jobs[2].log[n].predicted
          /\ jobs[2].log[n].matches # {}
          /\ transactions[jobs[2].log[n].txid].category \in jobs[2].log[n].matches

\* the rows of a job decided so far: saved or skipped
Decided(j) == 1..Len(jobs[j].log)

\* C23: at every point of a batch the rows decided are a prefix of the input,
\* the row in hand (its classifier call in flight or not) is the one after
\* that prefix, and the transactions the batch has persisted are those of the
\* saved rows of the prefix, in input order, one each.
C23_PrefixPersistedInOrder ==
    \A j \in JobIds :
       /\ jobs[j].pc \in {"rows", "http"} =>
             /\ Len(jobs[j].log) = jobs[j].i - 1
             /\ jobs[j].i \in 1..Len(jobs[j].raw_transactions)
       /\ jobs[j].pc = "done" => Len(jobs[j].log) \in {0, Len(jobs[j].raw_transactions)}
       /\ \A n \in Decided(j) :
             IF Saved(jobs[j].log[n])
             THEN /\ n \in NonFailing(jobs[j].raw_transactions)
                  /\ jobs[j].log[n].txid \in 1..Len(transactions)
                  /\ transactions[jobs[j].log[n].txid].original_description =
                        DescriptionOf(jobs[j].raw_transactions[n]).s
                  /\ jobs[j].log[n].txid =
                        1 + Cardinality({ m \in 1..(n - 1) : Saved(jobs[j].log[m]) })
             ELSE /\ jobs[j].log[n].txid = 0
                  /\ n \in NonFailing(jobs[j].raw_transactions) =>
                        jobs[j].log[n].outcome = "commit_error"
       /\ jobs[j].opened =>
             Len(transactions) = Cardinality({ n \in Decided(j) : Saved(jobs[j].log[n]) })

\* the classifier call of the third row is in flight: the first row is
\* saved, the second was skipped, one transaction is stored
C23_Witness ==
    \E j \in JobIds :
       /\ jobs[j].pc = "http" /\ jobs[j].i = 3
       /\ Saved(jobs[j].log[1]) /\ ~Saved(jobs[j].log[2])
       /\ Len(transactions) = 1
       /\ DescriptionOf(jobs[j].raw_transactions[1]) # DescriptionOf(jobs[j].raw_transactions[3])

\* C24: every predict_category call that posts to the remote endpoint sleeps
\* the rate-limit delay before it returns, however the remote call ended.
C24_DelayAfterEveryRemoteCall ==
    \A n \in 1..Len(calls) : calls[n].result.posted => calls[n].result.slept

\* the jobs whose predict_category remote call is in flight
InFlight == { j \in JobIds : jobs[j].pc = "http" }

\* C25: across all the batches the worker handles, at most one remote
\* classifier call is in flight at any instant.
C25_OneCallInFlight == Cardinality(InFlight) <= 1

\* the date a row is read with (line 67)
DateOf(tx) == PyOr(PyOr(tx.date, tx.Date), NoneV)

\* missing (absent or empty), not a text, or a text that is no ISO date or
\* datetime
BadDate(tx) ==
    \/ ~Truthy(DateOf(tx))
    \/ DateOf(tx).t # "str"
    \/ /\ ~IsIsoDate(DateOf(tx).s)
       /\ ~(/\ Len(DateOf(tx).s) > 10
            /\ IsIsoDate(SubSeq(DateOf(tx).s, 1, 10))
            /\ IsIsoTime(SubSeq(DateOf(tx).s, 11, Len(DateOf(tx).s))))

\* two rows that differ in their date fields at most
SameButDate(a, b) ==
    \A k \in {"description", "Description", "amount", "Amount"} : a[k] = b[k]

\* C26: a row whose date is missing, not a text or not an ISO date is saved
\* with the current timestamp as its date; its description, amount and
\* category are those of the same row with a valid date.
C26_BadDateBecomesNow ==
    \A x \in Entries : Done(x) =>
       /\ BadDate(RowOf(x)) =>
             /\ Saved(EntryOf(x))
             /\ transactions[EntryOf(x).txid].date = UtcNow
             /\ transactions[EntryOf(x).txid].original_description = DescriptionOf(RowOf(x)).s
             /\ transactions[EntryOf(x).txid].amount =
                   ParseFloat(PyOr(PyOr(RowOf(x).amount, RowOf(x).Amount), NumV(0))).val
       /\ \A y \in Entries :
             Done(y) /\ y.j = x.j /\ SameButDate(RowOf(x), RowOf(y)) =>
                /\ EntryOf(x).outcome = EntryOf(y).outcome
                /\ EntryOf(x).predicted = EntryOf(y).predicted
                /\ EntryOf(x).matches = EntryOf(y).matches
                /\ EntryOf(x).text = EntryOf(y).text
                /\ Saved(EntryOf(x)) =>
                      LET tx == transactions[EntryOf(x).txid]
                          ty == transactions[EntryOf(y).txid]
                      IN  /\ tx.original_description = ty.original_description
                          /\ tx.clean_description = ty.clean_description
                          /\ tx.amount = ty.amount
                          /\ tx.is_reviewed = ty.is_reviewed
                          /\ ~EntryOf(x).predicted => tx.category = ty.category

\* a batch of a row with a valid date and the same row with a number for a
\* date: both saved by the rule, one with its date, one with the timestamp
C26_Witness ==
    /\ jobs[1].pc = "done"
    /\ jobs[1].raw_transactions = <<RowNet, RowDateNum>>
    /\ Saved(jobs[1].log[1]) /\ Saved(jobs[1].log[2])
    /\ ~jobs[1].log[2].predicted
    /\ transactions[jobs[1].log[1].txid].date = S_date
    /\ transactions[jobs[1].log[2].txid].date = UtcNow
    /\ transactions[jobs[1].log[2].txid].category = "Travel"

\* C27: a step of a batch leaves the rules as they are and every stored
\* transaction as it is, adding at most one transaction at the end; no step
\* of any operation removes a rule.
C27_BatchFrame ==
    [][/\ (\E j \in JobIds : jobs'[j] # jobs[j]) =>
             /\ categorization_rules' = categorization_rules
             /\ Len(transactions') \in {Len(transactions), Len(transactions) + 1}
             /\ \A n \in 1..Len(transactions) : transactions'[n] = transactions[n]
       /\ \A r \in categorization_rules :
             \E q \in categorization_rules' :
                q.id = r.id /\ q.user_id = r.user_id /\ q.keyword = r.keyword
      ]_vars

\* a batch that ran to its end after a correction: the corrected transaction
\* is still reviewed, with the category of the rule the correction left, and
\* transactions of the batch follow it
C27_Witness ==
    \E n \in 1..Len(transactions), r \in categorization_rules :
       /\ transactions[n].is_reviewed
       /\ r.user_id = transactions[n].user_id
       /\ r.keyword = Keyword(transactions[n])
       /\ r.category = transactions[n].category
       /\ jobs[MaxJobs].pc = "done"
       /\ jobs[MaxJobs].user_uuid = r.user_id
       /\ \E m \in 1..Len(jobs[MaxJobs].log) :
             /\ Saved(jobs[MaxJobs].log[m])
             /\ jobs[MaxJobs].log[m].txid > n
             /\ r.category \in jobs[MaxJobs].log[m].matches
             /\ transactions[jobs[MaxJobs].log[m].txid].original_description =
                   transactions[n].original_description

\* the lowercased clean description of the row a job is at
RowText(job) ==
    Lower(sanitize_description(DescriptionOf(job.raw_transactions[job.i])).s)

\* C28: the row a batch decides is matched against the rules the batch read
\* when it started, whatever corrections have committed since: a category
\* given without the classifier is that of a rule of that set whose keyword
\* the description contains, and a row that no rule of that set matches goes
\* to the classifier; the set does not change while the batch runs.
C28_RulesOfBatchStart ==
    [][\A j \in JobIds :
          /\ jobs[j].pc \in {"rows", "http"} /\ jobs'[j].pc \in {"rows", "http"} =>
                jobs'[j].rules = jobs[j].rules
          /\ Len(jobs'[j].log) > Len(jobs[j].log) =>
                LET e == jobs'[j].log[Len(jobs'[j].log)]
                    start == jobs[j].rules
                IN  Saved(e) =>
                       /\ ~e.predicted =>
                             \E n \in 1..Len(start) :
                                /\ Contains(RowText(jobs[j]), start[n].keyword)
                                /\ start[n].category = e.category
                       /\ (\A n \in 1..Len(start) :
                              ~Contains(RowText(jobs[j]), start[n].keyword)) => e.predicted
      ]_vars

\* the second row of a batch is with the classifier; the batch read no rule;
\* its first row is saved and since corrected, and the rule that correction
\* stored matches the second row
C28_Witness ==
    \E j \in JobIds, r \in categorization_rules :
       /\ jobs[j].pc = "http" /\ jobs[j].i = 2
       /\ jobs[j].rules = <<>>
       /\ Saved(jobs[j].log[1])
       /\ transactions[jobs[j].log[1].txid].is_reviewed
       /\ r.user_id = jobs[j].user_uuid
       /\ r.keyword = Keyword(transactions[jobs[j].log[1].txid])
       /\ r.category # ""
       /\ Contains(RowText(jobs[j]), Lower(r.keyword))

\* C29: a transaction enters the table unreviewed; it becomes reviewed only in
\* the commit of a correction that targets it and answers 200; a reviewed
\* transaction stays reviewed; the commit of a correction changes nothing of
\* any transaction but the category and the reviewed flag of its target.
C29_ReviewedFlag ==
    [][/\ \A n \in (Len(transactions) + 1)..Len(transactions') :
             ~transactions'[n].is_reviewed
       /\ Len(transactions') >= Len(transactions)
       /\ \A n \in 1..Len(transactions) :
             /\ transactions[n].is_reviewed => transactions'[n].is_reviewed
             /\ ~transactions[n].is_reviewed /\ transactions'[n].is_reviewed =>
                   \E c \in ReqIds : /\ reqs[c].pc = "commit"
                                     /\ reqs[c].transaction_id = n
                                     /\ reqs'[c].status = 200
       /\ \A c \in ReqIds : reqs[c].pc = "commit" /\ reqs'[c].pc = "done" =>
             /\ Len(transactions') = Len(transactions)
             /\ \A n \in 1..Len(transactions) :
                   IF n = reqs[c].transaction_id
                   THEN [transactions'[n] EXCEPT !.category = transactions[n].category,
                                                 !.is_reviewed = transactions[n].is_reviewed]
                           = transactions[n]
                   ELSE transactions'[n] = transactions[n]
      ]_vars

\* two transactions of one user with the same description: one corrected and
\* reviewed, the other as the batch left it
C29_Witness ==
    \E n, m \in 1..Len(transactions), c \in ReqIds :
       /\ n # m
       /\ transactions[n].user_id = transactions[m].user_id
       /\ transactions[n].original_description = transactions[m].original_description
       /\ transactions[n].is_reviewed /\ ~transactions[m].is_reviewed
       /\ transactions[n].category # transactions[m].category
       /\ reqs[c].pc = "done" /\ reqs[c].status = 200

\* C30: every rule stored, and every keyword a request is about to store, is
\* non-empty and is its own trimmed, lowercased form.
C30_KeywordNormalized ==
    /\ \A r \in categorization_rules :
          r.keyword # <<>> /\ r.keyword = Lower(Strip(r.keyword))
    /\ \A c \in ReqIds : reqs[c].pc = "commit" =>
          reqs[c].keyword # <<>> /\ reqs[c].keyword = Lower(Strip(reqs[c].keyword))

\* a rule learned from a description with a leading blank and capitals, and
\* a correction of a transaction with a blank description refused
C30_Witness ==
    /\ \E r \in categorization_rules, n \in 1..Len(transactions) :
          /\ transactions[n].is_reviewed
          /\ transactions[n].clean_description # Strip(transactions[n].clean_description)
          /\ transactions[n].clean_description # Lower(transactions[n].clean_description)
          /\ r.keyword = Lower(Strip(transactions[n].clean_description))
    /\ \E c \in ReqIds : reqs[c].status = 400
    /\ \E n \in 1..Len(transactions) :
          transactions[n].clean_description # <<>> /\ Strip(transactions[n].clean_description) = <<>>

====
